---- MODULE Spec2Model ----
(***************************************************************************)
(* Model of the Monad dashboard's RPC aggregation layer (services/api.ts)  *)
(* and of the SearchBar component that drives it.                          *)
(*                                                                         *)
(* The specifications share     the variables below; each one moves the part  *)
(* of the state it is about and leaves the rest at its initial value:      *)
(*   SpecRate    the rate limiter and the two RPC entry points             *)
(*   SpecBatch   batchBlockVisionData's response handling                  *)
(*   SpecSearch  SearchBar.handleSearch / handleCancel and the lookups     *)
(*   SpecAgg     the aggregators under RPC failures                        *)
(*   SpecLatestTransactions  getLatestTransactions with its timers fair    *)
(*   SpecBlocks  BlocksSection's initial fetch and its 5-second polls      *)
(*   SpecTxs     TransactionsSection's 5-second polls                      *)
(*   SpecPanels  the panels that refresh from one aggregator each          *)
(*   SpecDeployments  DeploymentsSection and getRecentDeployments          *)
(*   SpecMerge   the merges of the cumulative panels                       *)
(*   SpecHealth  the two ecosystem-health computations                     *)
(*   SpecHealthLive  SpecHealth with every awaited request settling        *)
(*   SpecContractInfo  getContractInfo and its four probes                 *)
(*   SpecTopContracts  TopContractsSection and its entry in localStorage   *)
(*   SpecBlocksLive  SpecBlocks, the interval ticking, the polls settling  *)
(*   SpecLog     EventsLog's first fetch and its 30-second polls           *)
(*   SpecHex     hexToNumber and hexToBigInt on one input                  *)
(*   SpecShell   the loading flag and the interval of a polling component, *)
(*               with its timer and its first fetch fair                   *)
(***************************************************************************)
EXTENDS Integers, Sequences, FiniteSets, TLC

(***************************************************************************)
(* Bounds of the model.                                                    *)
(***************************************************************************)
MaxNow == 2000
MaxInflight == 2
MaxBatch == 3
MaxSearches == 2
MaxHeight == 2
MaxTxs == 2
MaxCount == 2
MaxChain == 13
MaxPolls == 2
MaxMissing == 1
MaxHashes == 4
MaxNew == 3
MaxWindow == 2
MaxGas == 2
MaxZeros == 2
MaxLogHeight == 3
MaxClock == 1
MaxShift == 13

(***************************************************************************)
(* Program constants.                                                      *)
(***************************************************************************)
RATE_LIMIT == 20
RATE_LIMIT_WINDOW == 1000
TOP_CONTRACT_BLOCKS == 5
DEPLOYMENT_BLOCKS == 10
MAX_DEPLOYMENTS == 12
EVENT_TXS_PER_BLOCK == 3
MAX_EVENTS == 20
BLOCKS_SHOWN == 12
TXS_SHOWN == 50
HIGH_GAS_SHOWN == 12
HIGH_GAS_TOP == 5
GAS_HISTORY_BLOCKS_PER_MINUTE == 20
TOP_CONTRACTS_SHOWN == 10
DOUBLE_PRECISION == 53
RECENT_EVENT_BLOCKS == 2
secondsIn24h == 600
BLOCK_TIME_SAMPLE == 100
EVENTS_SHOWN == 20

PROXY_URL == "testnet-rpc.monad.xyz"
QUICKNODE_RPC_URL == "monad-testnet.quiknode.pro"
ALCHEMY_RPC_URL == "monad-testnet.g.alchemy.com"

VARIABLES
    now,            \* Date.now(), in milliseconds since module load
    requestCount,   \* api.ts module variable
    lastResetTime,  \* api.ts module variable
    calls,          \* the RPC calls of the page: one promise per slot
    admitted,       \* history: calls that passed checkRateLimit since the last reset
    batchStage,     \* where the one batch call under study stands
    batchN,         \* requests.length of that batch
    batchData,      \* what the provider answered to it
    batchOut,       \* what batchBlockVisionData handed to its caller
    isSearching,        \* SearchBar state
    isModalOpen,        \* SearchBar state
    searchResult,       \* SearchBar state
    abortControllerRef, \* SearchBar ref: the search whose controller it holds, 0 for null
    srch,               \* the handleSearch invocations, in the order they are submitted
    agg,            \* the aggregator call under study: its locals and where it stands
    aggOut,         \* how that call settled: the value returned, or thrown
    chainHeight,          \* the height of the chain, what eth_blockNumber answers
    blocks,               \* BlocksSection state: the numbers of the blocks displayed
    latestBlockNumberRef, \* BlocksSection ref, Null for null
    initialFetch,         \* where fetchInitialBlocks stands, and its latestBlockNum
    polls,                \* the pollForNewBlocks invocations that can be under way
    latestTxs,      \* the hashes of the transactions of the latest block, in its order
    nextHash,       \* the hash of the next transaction the chain will hold
    transactions,   \* TransactionsSection state: the hashes of the transactions displayed
    seenTxHashes,   \* TransactionsSection ref
    txPolls,        \* the fetchTransactions invocations that can be under way
    panel,          \* the panel under study: what it displays, and the history of its refreshes
    merge,          \* the merge under study: the panel, its state, and the result merged into it
    shell,          \* the polling component under study: its loading flag, its fetches, its timer
    topContracts,   \* TopContractsSection: its contracts state and the history of its refreshes
    localStorage,   \* the browser's storage: what is stored under 'lastTopContracts'
    hex,            \* the conversion under study: its input and what the two helpers made of it
    log             \* EventsLog: its state, its fetches in flight, and the chain and the clock they read

rateVars == <<now, requestCount, lastResetTime, calls, admitted>>
batchVars == <<batchStage, batchN, batchData, batchOut>>
searchVars == <<isSearching, isModalOpen, searchResult, abortControllerRef, srch>>
aggVars == <<agg, aggOut>>

blocksVars == <<chainHeight, blocks, latestBlockNumberRef, initialFetch, polls>>

txsVars == <<latestTxs, nextHash, transactions, seenTxHashes, txPolls>>

panelVars == <<panel>>

mergeVars == <<merge>>

shellVars == <<shell>>

topVars == <<topContracts, localStorage>>

hexVars == <<hex>>

logVars == <<log>>

vars == <<rateVars, batchVars, searchVars, aggVars, blocksVars, txsVars, panelVars, mergeVars, shellVars, topVars, hexVars, logVars>>

\* the parts of the state each specification leaves alone
notRate == <<batchVars, searchVars, aggVars, blocksVars, txsVars, panelVars, mergeVars, shellVars, topVars, hexVars, logVars>>
notBatch == <<rateVars, searchVars, aggVars, blocksVars, txsVars, panelVars, mergeVars, shellVars, topVars, hexVars, logVars>>
notSearch == <<rateVars, batchVars, aggVars, blocksVars, txsVars, panelVars, mergeVars, shellVars, topVars, hexVars, logVars>>
notAgg == <<rateVars, batchVars, searchVars, blocksVars, txsVars, panelVars, mergeVars, shellVars, topVars, hexVars, logVars>>
notBlocks == <<rateVars, batchVars, searchVars, aggVars, txsVars, panelVars, mergeVars, shellVars, topVars, hexVars, logVars>>
notPanels == <<rateVars, batchVars, searchVars, blocksVars, txsVars, mergeVars, shellVars, topVars, hexVars, logVars>>
notMerge == <<rateVars, batchVars, searchVars, aggVars, blocksVars, txsVars, panelVars, shellVars, topVars, hexVars, logVars>>
notTxs == <<rateVars, batchVars, searchVars, aggVars, blocksVars, panelVars, mergeVars, shellVars, topVars, hexVars, logVars>>
notShell == <<rateVars, batchVars, searchVars, aggVars, blocksVars, txsVars, panelVars, mergeVars, topVars, hexVars, logVars>>
notTop == <<rateVars, batchVars, searchVars, blocksVars, txsVars, panelVars, mergeVars, shellVars, hexVars, logVars>>
notHex == <<rateVars, batchVars, searchVars, aggVars, blocksVars, txsVars, panelVars, mergeVars, shellVars, topVars, logVars>>
notLog == <<rateVars, batchVars, searchVars, aggVars, blocksVars, txsVars, panelVars, mergeVars, shellVars, topVars, hexVars>>

(***************************************************************************)
(* Rate limiter.                                                           *)
(***************************************************************************)

\* url.includes('quiknode')
IsQuick(url) == url = QUICKNODE_RPC_URL

\* checkRateLimit with the window test written as a strict comparison
checkRateLimit_StrictWindow(t, cnt, last) ==
    LET expired == t - last > RATE_LIMIT_WINDOW
        cnt1    == IF expired THEN 0 ELSE cnt
        last1   == IF expired THEN t ELSE last
    IN  IF cnt1 >= RATE_LIMIT
        THEN [throws |-> TRUE,  requestCount |-> cnt1,     lastResetTime |-> last1]
        ELSE [throws |-> FALSE, requestCount |-> cnt1 + 1, lastResetTime |-> last1]

\* checkRateLimit with the limit test written as a strict comparison
checkRateLimit_OffByOne(t, cnt, last) ==
    LET expired == t - last >= RATE_LIMIT_WINDOW
        cnt1    == IF expired THEN 0 ELSE cnt
        last1   == IF expired THEN t ELSE last
    IN  IF cnt1 > RATE_LIMIT
        THEN [throws |-> TRUE,  requestCount |-> cnt1,     lastResetTime |-> last1]
        ELSE [throws |-> FALSE, requestCount |-> cnt1 + 1, lastResetTime |-> last1]

\* checkRateLimit counting the call before it tests the limit
checkRateLimit_CountFirst(t, cnt, last) ==
    LET expired == t - last >= RATE_LIMIT_WINDOW
        cnt1    == (IF expired THEN 0 ELSE cnt) + 1
        last1   == IF expired THEN t ELSE last
    IN  [throws |-> cnt1 > RATE_LIMIT, requestCount |-> cnt1, lastResetTime |-> last1]

\* checkRateLimit() run at time t on the counter (cnt, last): the counter it
\* leaves behind and whether it throws the rate-limit error.
checkRateLimit(t, cnt, last) ==
    LET expired == t - last >= RATE_LIMIT_WINDOW
        cnt1    == IF expired THEN 0 ELSE cnt
        last1   == IF expired THEN t ELSE last
    IN  IF cnt1 >= RATE_LIMIT
        THEN [throws |-> TRUE,  requestCount |-> cnt1,     lastResetTime |-> last1]
        ELSE [throws |-> FALSE, requestCount |-> cnt1 + 1, lastResetTime |-> last1]

(***************************************************************************)
(* RPC calls.  A slot is the promise of one call: free, awaiting fetch,    *)
(* awaiting response.json(), or settled with its outcome.                  *)
(***************************************************************************)
Slots == 1..MaxInflight

FreeCall == [pc |-> "free", fn |-> "none", url |-> "none", checked |-> FALSE, result |-> "none"]

Settled(res) == [pc |-> "done", fn |-> "none", url |-> "none", checked |-> FALSE, result |-> res]

\* the endpoints each entry point is called with in the repository
SingleUrls == {PROXY_URL, QUICKNODE_RPC_URL, ALCHEMY_RPC_URL}
BatchUrls == {PROXY_URL, QUICKNODE_RPC_URL}

RateInit ==
    /\ now = 0
    /\ requestCount = 0
    /\ lastResetTime = 0
    /\ calls = [s \in Slots |-> FreeCall]
    /\ admitted = 0

\* time passes between two events of the page
TickSteps == {RATE_LIMIT_WINDOW - 1, RATE_LIMIT_WINDOW}

Tick ==
    /\ \E d \in TickSteps :
         /\ now + d <= MaxNow
         /\ now' = now + d
    /\ UNCHANGED <<requestCount, lastResetTime, calls, admitted>>
    /\ UNCHANGED notRate

\* getBlockVisionData up to its first await: the rate-limit check for the
\* QuickNode endpoint, then the fetch is issued
getBlockVisionData(s, url) ==
    /\ calls[s].pc = "free"
    /\ IF IsQuick(url)
       THEN LET r == checkRateLimit(now, requestCount, lastResetTime) IN
            /\ requestCount' = r.requestCount
            /\ lastResetTime' = r.lastResetTime
            /\ admitted' = (IF r.lastResetTime # lastResetTime THEN 0 ELSE admitted)
                           + (IF r.throws THEN 0 ELSE 1)
            /\ calls' = [calls EXCEPT ![s] =
                           IF r.throws
                           THEN Settled("RateLimited")
                           ELSE [pc |-> "fetch", fn |-> "single", url |-> url,
                                 checked |-> TRUE, result |-> "none"]]
       ELSE /\ calls' = [calls EXCEPT ![s] =
                           [pc |-> "fetch", fn |-> "single", url |-> url,
                            checked |-> FALSE, result |-> "none"]]
            /\ UNCHANGED <<requestCount, lastResetTime, admitted>>
    /\ UNCHANGED now
    /\ UNCHANGED notRate

\* batchBlockVisionData up to its first await: the fetch is issued
batchBlockVisionData(s, url) ==
    /\ calls[s].pc = "free"
    /\ calls' = [calls EXCEPT ![s] =
                   [pc |-> "fetch", fn |-> "batch", url |-> url,
                    checked |-> FALSE, result |-> "none"]]
    /\ UNCHANGED <<now, requestCount, lastResetTime, admitted>>
    /\ UNCHANGED notRate

\* the fetch settles: it rejects, answers with a non-2xx status, or answers
FetchSettles(s) ==
    /\ calls[s].pc = "fetch"
    /\ \E o \in {"rejected", "not_ok", "ok"} :
         calls' = [calls EXCEPT ![s] =
                     IF o = "ok" THEN [@ EXCEPT !.pc = "json"]
                     ELSE Settled("TransportFailure")]
    /\ UNCHANGED <<now, requestCount, lastResetTime, admitted>>
    /\ UNCHANGED notRate

\* response.json() settles: the body carries an error (or, for a batch, is
\* not an array), or it carries the result
JsonSettles(s) ==
    /\ calls[s].pc = "json"
    /\ \E o \in {"error", "result"} :
         calls' = [calls EXCEPT ![s] =
                     IF o = "result" THEN Settled("ok")
                     ELSE Settled("ProtocolFailure")]
    /\ UNCHANGED <<now, requestCount, lastResetTime, admitted>>
    /\ UNCHANGED notRate

\* the caller takes the outcome of a settled call
Consume(s) ==
    /\ calls[s].pc = "done"
    /\ calls' = [calls EXCEPT ![s] = FreeCall]
    /\ UNCHANGED <<now, requestCount, lastResetTime, admitted>>
    /\ UNCHANGED notRate

NextRate ==
    \/ Tick
    \/ \E s \in Slots, url \in SingleUrls : getBlockVisionData(s, url)
    \/ \E s \in Slots, url \in BatchUrls : batchBlockVisionData(s, url)
    \/ \E s \in Slots : FetchSettles(s)
    \/ \E s \in Slots : JsonSettles(s)
    \/ \E s \in Slots : Consume(s)


(***************************************************************************)
(* batchBlockVisionData: one batch of batchN requests, tagged with the ids *)
(* 0..batchN-1, and what is made of the provider's answer.  The result of  *)
(* request i is written i; null is written Null.                           *)
(***************************************************************************)
Null == -1

BatchIds == 0..(batchN - 1)

\* res.result of the sub-response to request i
ResultOf(i) == i

\* the sequences of length k without a repeated id, over the ids of S
RECURSIVE Arrangements(_, _)
Arrangements(S, k) ==
    IF k = 0 THEN {<<>>}
    ELSE UNION {{<<x>> \o rest : rest \in Arrangements(S \ {x}, k - 1)} : x \in S}

\* the arrays a provider can answer n requests with: at most one sub-response
\* per request, in any order, each with or without an error field
ProviderArrays(n) ==
    UNION {UNION {{[j \in 1..k |-> [id |-> order[j], error |-> errs[j], result |-> ResultOf(order[j])]]
                      : errs \in [1..k -> BOOLEAN]}
                  : order \in Arrangements(0..(n - 1), k)}
           : k \in 0..n}

\* data.sort((a, b) => a.id - b.id) on sub-responses of distinct ids
RECURSIVE SortById(_)
SortById(data) ==
    IF data = <<>> THEN <<>>
    ELSE LET m == CHOOSE j \in 1..Len(data) : \A k \in 1..Len(data) : data[j].id <= data[k].id
         IN  <<data[m]>> \o SortById(SubSeq(data, 1, m - 1) \o SubSeq(data, m + 1, Len(data)))

\* the array mapped without being sorted first
BatchResults_Unsorted(data) ==
    [j \in 1..Len(data) |-> IF data[j].error THEN Null ELSE data[j].result]

\* data.sort(...).map(res => res.error ? null : res.result)
BatchResults(data) ==
    LET sorted == SortById(data)
    IN  [j \in 1..Len(sorted) |-> IF sorted[j].error THEN Null ELSE sorted[j].result]

NoData == [kind |-> "none", items |-> <<>>]
NoOut == [threw |-> FALSE, value |-> <<>>]

BatchInit ==
    /\ batchStage = "idle"
    /\ batchN = 0
    /\ batchData = NoData
    /\ batchOut = NoOut

\* a caller hands n requests to batchBlockVisionData, which posts them
BatchCall ==
    /\ batchStage = "idle"
    /\ \E n \in 1..MaxBatch : batchN' = n
    /\ batchStage' = "fetch"
    /\ batchData' = NoData
    /\ batchOut' = NoOut
    /\ UNCHANGED notBatch

\* the provider's answer arrives: no answer or a non-2xx status, a body that
\* is not an array, or an array of sub-responses
ProviderAnswers ==
    /\ batchStage = "fetch"
    /\ \/ \E k \in {"transport_failure", "not_array"} : batchData' = [kind |-> k, items |-> <<>>]
       \/ \E a \in ProviderArrays(batchN) : batchData' = [kind |-> "array", items |-> a]
    /\ batchStage' = "answered"
    /\ UNCHANGED <<batchN, batchOut>>
    /\ UNCHANGED notBatch

\* batchBlockVisionData settles: it throws, or returns the mapped array
BatchSettles ==
    /\ batchStage = "answered"
    /\ batchOut' = IF batchData.kind = "array"
                   THEN [threw |-> FALSE, value |-> BatchResults(batchData.items)]
                   ELSE [threw |-> TRUE, value |-> <<>>]
    /\ batchStage' = "settled"
    /\ UNCHANGED <<batchN, batchData>>
    /\ UNCHANGED notBatch

\* the caller is done with the batch
BatchDone ==
    /\ batchStage = "settled"
    /\ batchStage' = "idle"
    /\ batchN' = 0
    /\ batchData' = NoData
    /\ batchOut' = NoOut
    /\ UNCHANGED notBatch

NextBatch ==
    \/ BatchCall
    \/ ProviderAnswers
    \/ BatchSettles
    \/ BatchDone

(***************************************************************************)
(* SearchBar: handleSearch, handleCancel and the lookups they drive.       *)
(* srch[k] is the k-th submitted search: where handleSearch stands (hs),   *)
(* the lookup function it awaits (fn) and where that function stands (at), *)
(* its abort signal, and the requests of the search that are in flight,    *)
(* each with the signal it was given or without one.                       *)
(***************************************************************************)
Searches == 1..MaxSearches

QueryKinds == {"hash", "number", "address", "invalid"}

\* ways a request fails other than by abort: `HTTP error! status: 429`,
\* another non-2xx status, `Failed to fetch`, `RPC Error: ...`
Failures == {"http_429", "http_other", "network", "rpc"}

\* the ERC-20 probes of getContractInfo
Probes == {"name", "symbol", "decimals", "totalSupply"}

Req(call, signal) == [call |-> call, signal |-> signal]

NoProbes == [f \in Probes |-> "none"]

IdleSearch ==
    [hs |-> "idle", kind |-> "none", aborted |-> FALSE, fn |-> "none", at |-> "none",
     reqs |-> {}, tx |-> "none", receipt |-> "none", probe |-> NoProbes,
     out |-> "none", abortedInFlight |-> FALSE]

NoResult == [type |-> "null", of |-> 0]

SearchInit ==
    /\ isSearching = FALSE
    /\ isModalOpen = FALSE
    /\ searchResult = NoResult
    /\ abortControllerRef = 0
    /\ srch = [k \in Searches |-> IdleSearch]

UI ==
    [isSearching |-> isSearching, isModalOpen |-> isModalOpen,
     searchResult |-> searchResult, abortControllerRef |-> abortControllerRef]

SetUI(u) ==
    /\ isSearching' = u.isSearching
    /\ isModalOpen' = u.isModalOpen
    /\ searchResult' = u.searchResult
    /\ abortControllerRef' = u.abortControllerRef

\* a lookup function is entered: its first request(s) are issued
Enter(s, fn, at, newReqs) ==
    [s EXCEPT !.fn = fn, !.at = at, !.reqs = @ \cup newReqs,
              !.tx = IF at = "all" THEN "pending" ELSE "none",
              !.receipt = IF at = "all" THEN "pending" ELSE "none",
              !.out = "none", !.abortedInFlight = FALSE]

\* getEnhancedTransactionByHash up to its Promise.all
EnterTransactionByHash(s) ==
    Enter(s, "getEnhancedTransactionByHash", "all",
          {Req("eth_getTransactionByHash", TRUE), Req("eth_getTransactionReceipt", FALSE)})

\* the catch clause of handleSearch: the message shown for a thrown error
ErrorShown(out) ==
    CASE out = "http_429" -> "error_429"
      [] out = "timeout"  -> "error_timeout"
      [] out = "network"  -> "error_network"
      [] out = "rpc"      -> "error_rpc"
      [] OTHER            -> "error_failed"

\* what handleSearch makes of the settled lookup fn with outcome out
ResultShown(fn, out) ==
    CASE fn = "getEnhancedBlockByHash" /\ out = "value" -> "block"
      [] fn = "getEnhancedBlockByNumber" /\ out = "value" -> "block"
      [] fn = "getEnhancedBlockByNumber" /\ out = "null" -> "error_no_block"
      [] fn = "getEnhancedTransactionByHash" /\ out = "value" -> "transaction"
      [] fn = "getEnhancedTransactionByHash" /\ out = "creation" -> "contract"
      [] fn = "getEnhancedTransactionByHash" /\ out = "null" -> "error_not_found"
      [] fn = "getContractInfo" /\ out \in {"Not a contract", "N/A"} -> "error_not_contract"
      [] fn = "getContractInfo" /\ out = "ERC20" -> "contract_address"
      [] OTHER -> ErrorShown(out)

\* setSearchResult(...) and the finally clause of handleSearch k
Finish(u, k, type) ==
    [u EXCEPT !.searchResult = [type |-> type, of |-> k],
              !.isSearching = FALSE,
              !.abortControllerRef = 0]

\* the lookup of search s settles with outcome out, and handleSearch k, when
\* it still awaits the lookup, goes on: it tries the hash as a transaction
\* hash, or it shows the result and ends
LookupSettles(s, u, k, out) ==
    LET s1 == [s EXCEPT !.at = "settled", !.out = out] IN
    IF s.hs # "waiting" THEN [s |-> s1, u |-> u]
    ELSE IF s.fn = "getEnhancedBlockByHash" /\ out = "null"
         THEN [s |-> EnterTransactionByHash(s1), u |-> u]
         ELSE [s |-> [s1 EXCEPT !.hs = "done"], u |-> Finish(u, k, ResultShown(s.fn, out))]

\* handleSearch(k) from the submit to its first await
handleSearch(k) ==
    /\ ~isSearching
    /\ srch[k].hs = "idle"
    /\ \A j \in Searches : j < k => srch[j].hs # "idle"
    /\ \E kind \in QueryKinds :
         LET s0 == [srch[k] EXCEPT !.hs = "waiting", !.kind = kind]
             u0 == [UI EXCEPT !.isSearching = TRUE, !.isModalOpen = TRUE,
                              !.searchResult = NoResult, !.abortControllerRef = k]
         IN  CASE kind = "hash" ->
                    /\ srch' = [srch EXCEPT ![k] = Enter(s0, "getEnhancedBlockByHash", "call",
                                                          {Req("eth_getBlockByHash", TRUE)})]
                    /\ SetUI(u0)
               [] kind = "number" ->
                    /\ srch' = [srch EXCEPT ![k] = Enter(s0, "getEnhancedBlockByNumber", "call",
                                                          {Req("eth_getBlockByNumber", TRUE)})]
                    /\ SetUI(u0)
               [] kind = "address" ->
                    /\ srch' = [srch EXCEPT ![k] = Enter(s0, "getContractInfo", "code",
                                                          {Req("eth_getCode", TRUE)})]
                    /\ SetUI(u0)
               [] kind = "invalid" ->
                    /\ srch' = [srch EXCEPT ![k] = [s0 EXCEPT !.hs = "done"]]
                    /\ SetUI(Finish(u0, k, "error_invalid"))
    /\ UNCHANGED notSearch

\* the outcomes of a request: a result, a null result, or a failure
Outcomes(r) ==
    (IF r.call = "eth_getTransactionByHash" THEN {"value", "creation", "null"}
     ELSE {"value", "null"}) \cup Failures

\* the lookup of search s is awaiting request r
Awaits(s, r) ==
    \/ s.at = "call" /\ r.call \in {"eth_getBlockByHash", "eth_getBlockByNumber"} /\ r.signal
    \/ s.at = "all" /\ r.call \in {"eth_getTransactionByHash", "eth_getTransactionReceipt"}
    \/ s.at = "block" /\ r.call = "eth_getBlockByNumber" /\ ~r.signal
    \/ s.at = "code" /\ r.call = "eth_getCode"
    \/ s.at = "probes" /\ r.call \in Probes

\* getEnhancedTransactionByHash after one of the two requests of its
\* Promise.all settled with o
AfterAll(s, u, k, r, o) ==
    IF o \in Failures THEN LookupSettles(s, u, k, "null")
    ELSE LET s1 == IF r.call = "eth_getTransactionByHash"
                   THEN [s EXCEPT !.tx = o] ELSE [s EXCEPT !.receipt = o]
         IN  IF s1.tx = "pending" \/ s1.receipt = "pending" THEN [s |-> s1, u |-> u]
             ELSE IF s1.tx = "null" THEN LookupSettles(s1, u, k, "null")
             ELSE IF s1.receipt = "value"
                  THEN [s |-> [s1 EXCEPT !.at = "block",
                                         !.reqs = @ \cup {Req("eth_getBlockByNumber", FALSE)}],
                        u |-> u]
                  ELSE LookupSettles(s1, u, k, s1.tx)

\* getContractInfo after eth_getCode settled with o
AfterCode(s, u, k, o) ==
    IF o \in Failures THEN LookupSettles(s, u, k, "N/A")
    ELSE IF o = "null" THEN LookupSettles(s, u, k, "Not a contract")
    ELSE [s |-> [s EXCEPT !.at = "probes",
                          !.reqs = @ \cup {Req(f, TRUE) : f \in Probes},
                          !.probe = [f \in Probes |-> "pending"]],
          u |-> u]

\* getContractInfo after the probes in P settled, each with o: the helper
\* `call` turns a failure into null, and the decoders turn null into 'N/A'
AfterProbes(s, u, k, P, o) ==
    LET s1 == [s EXCEPT !.probe = [f \in Probes |->
                           IF f \in P THEN (IF o = "value" THEN "value" ELSE "N/A")
                           ELSE s.probe[f]]]
    IN  IF \E f \in Probes : s1.probe[f] = "pending" THEN [s |-> s1, u |-> u]
        ELSE LookupSettles(s1, u, k, "ERC20")

\* a request of search k settles with outcome o and the code awaiting it runs
RequestSettles(k) ==
    /\ \E r \in srch[k].reqs : \E o \in Outcomes(r) :
         LET s0 == [srch[k] EXCEPT !.reqs = @ \ {r}]
             n  == CASE ~Awaits(srch[k], r) -> [s |-> s0, u |-> UI]
                     [] Awaits(srch[k], r) /\ s0.at = "call" -> LookupSettles(s0, UI, k, o)
                     [] Awaits(srch[k], r) /\ s0.at = "all" -> AfterAll(s0, UI, k, r, o)
                     [] Awaits(srch[k], r) /\ s0.at = "block" ->
                            LookupSettles(s0, UI, k, IF o \in Failures THEN "null" ELSE s0.tx)
                     [] Awaits(srch[k], r) /\ s0.at = "code" -> AfterCode(s0, UI, k, o)
                     [] Awaits(srch[k], r) /\ s0.at = "probes" -> AfterProbes(s0, UI, k, {r.call}, o)
         IN  /\ srch' = [srch EXCEPT ![k] = n.s]
             /\ SetUI(n.u)
    /\ UNCHANGED notSearch

\* abortControllerRef.current.abort() for search k: every request in flight
\* that carries the signal rejects with AbortError, and the code awaiting it
\* runs
Aborted(s, u, k) ==
    LET A  == {r \in s.reqs : r.signal}
        s0 == [s EXCEPT !.aborted = TRUE, !.reqs = @ \ A,
                        !.abortedInFlight = @ \/ (\E r \in A : Awaits(s, r))]
    IN  CASE s.at \in {"call", "code"} /\ A # {} -> LookupSettles(s0, u, k, "Cancelled")
          [] s.at = "all" /\ Req("eth_getTransactionByHash", TRUE) \in A ->
                 LookupSettles(s0, u, k, "null")
          [] s.at = "probes" /\ A # {} ->
                 AfterProbes(s0, u, k, {r.call : r \in A}, "AbortError")
          [] OTHER -> [s |-> s0, u |-> u]

\* the Cancel button, drawn while isSearching
handleCancel ==
    /\ isSearching
    /\ LET u0 == [UI EXCEPT !.isModalOpen = FALSE, !.isSearching = FALSE,
                            !.searchResult = NoResult]
           k  == abortControllerRef
       IN  IF k = 0
           THEN SetUI(u0) /\ UNCHANGED srch
           ELSE LET n == Aborted(srch[k], u0, k) IN
                /\ srch' = [srch EXCEPT ![k] = n.s]
                /\ SetUI(n.u)
    /\ UNCHANGED notSearch

\* the 8-second timeoutPromise of handleSearch k wins the race; the lookup
\* goes on without it
SearchTimeout(k) ==
    /\ srch[k].hs = "waiting"
    /\ srch' = [srch EXCEPT ![k].hs = "done"]
    /\ SetUI(Finish(UI, k, ErrorShown("timeout")))
    /\ UNCHANGED notSearch

\* onClose of the result modal
CloseModal ==
    /\ searchResult # NoResult
    /\ isModalOpen
    /\ isModalOpen' = FALSE
    /\ searchResult' = NoResult
    /\ UNCHANGED <<isSearching, abortControllerRef, srch>>
    /\ UNCHANGED notSearch

NextSearch ==
    \/ \E k \in Searches : handleSearch(k)
    \/ \E k \in Searches : RequestSettles(k)
    \/ handleCancel
    \/ \E k \in Searches : SearchTimeout(k)
    \/ CloseModal

(***************************************************************************)
(* Aggregators.  agg is one call of an aggregator: its name, the await it  *)
(* stands at (pc) and its locals; aggOut is how the call settled.  Every   *)
(* step is the answer to the request(s) the call awaits, followed by the   *)
(* code up to the next await or to the end of the function.                *)
(***************************************************************************)
Aggregators ==
    {"getLatestBlocks", "getLatestTransactions", "getDashboardMetrics",
     "getGasOverviewData", "getGasUsageHistory", "getTopContracts",
     "getRecentDeployments", "getRecentEvents", "getNewEventsSince"}

\* what getBlockVisionData throws: `HTTP error!`/a rejected fetch,
\* `RPC Error: ...`, and, for the QuickNode endpoint, the rate-limit error
Errors(url) ==
    {"TransportFailure", "ProtocolFailure"} \cup (IF IsQuick(url) THEN {"RateLimited"} ELSE {})

Heights == 0..MaxHeight

Running == [status |-> "none", value |-> <<>>]
Returned(v) == [status |-> "returned", value |-> v]
Thrown == [status |-> "threw", value |-> <<>>]

IdleAgg ==
    [name |-> "none", pc |-> "idle", count |-> 0, h |-> 0, i |-> 0, t |-> 0,
     todo |-> <<>>, acc |-> <<>>, first |-> "none", threw |-> FALSE, nulls |-> {},
     steps |-> <<>>, fetched |-> [blocks |-> 0, receipts |-> 0]]

AggInit ==
    /\ agg = IdleAgg
    /\ aggOut = Running

\* a catch clause that lets the error through
Catch_Rethrow(r, fallback) == r

\* try { ... } catch (error) { console.error(...); return fallback; }
Catch(r, fallback) == IF r.status = "threw" THEN Returned(fallback) ELSE r

ZeroMetrics ==
    [latestBlock |-> 0, txsInLastBlock |-> 0, totalTxs |-> 0, blocksPerMin |-> 0,
     txsPerMin |-> 0, avgTxValue |-> "0.00"]

ZeroGasOverview == [baseFee |-> "0", priorityFee |-> "0", highGasTxs |-> <<>>]

\* the value each aggregator returns from its catch clause
Empty(name) ==
    CASE name = "getDashboardMetrics" -> ZeroMetrics
      [] name = "getGasOverviewData" -> ZeroGasOverview
      [] OTHER -> <<>>

Go(a) == [a |-> a, r |-> Running]
Ret(a, v) == [a |-> [a EXCEPT !.pc = "done"], r |-> Returned(v)]
Throw(a) == [a |-> [a EXCEPT !.pc = "done", !.threw = TRUE], r |-> Thrown]

\* the step n of the call agg: its locals move on, and a return or a throw
\* goes through the try/catch that encloses the body of the aggregator
Takes(n) ==
    /\ agg' = n.a
    /\ aggOut' = IF n.r.status = "none" THEN aggOut ELSE Catch(n.r, Empty(agg.name))
    /\ UNCHANGED notAgg

\* the answers to eth_blockNumber: a height, or an error
HeightAnswersAt(heights, url) ==
    {[o |-> "ok", h |-> h] : h \in heights} \cup {[o |-> e, h |-> 0] : e \in Errors(url)}

HeightAnswers(url) == HeightAnswersAt(Heights, url)

\* the answers to eth_getBlockByNumber for an existing block: the block with
\* n transactions, null, or an error
BlockAnswers(url) ==
    {[o |-> "ok", n |-> n] : n \in 0..MaxTxs}
        \cup {[o |-> "null", n |-> 0]} \cup {[o |-> e, n |-> 0] : e \in Errors(url)}

\* the answers to the requests for the blocks numbered in nums, issued
\* together; a negative number (`0x-1`) is answered with an error
BlockPatterns(nums, url) ==
    {p \in [nums -> BlockAnswers(url)] : \A b \in nums : b < 0 => p[b].o = "ProtocolFailure"}

\* one block number more
Back_OneMore(latest, count) == {latest - i : i \in 0..count}

\* the block numbers latest - i for 0 <= i < count
Back(latest, count) == {latest - i : i \in 0..(count - 1)}

\* the elements of the set of numbers S, largest first
RECURSIVE Descending(_)
Descending(S) ==
    IF S = {} THEN <<>>
    ELSE LET m == CHOOSE x \in S : \A y \in S : y <= x IN <<m>> \o Descending(S \ {m})

\* the call of aggregator name with argument c, up to its first await
StartOf(name, c) ==
    [IdleAgg EXCEPT
       !.name = name,
       !.count = c,
       !.pc = CASE name \in {"getLatestTransactions", "getDashboardMetrics",
                             "getGasUsageHistory"} -> "latest"
                [] name = "getGasOverviewData" -> "batch"
                [] OTHER -> "height"]

\* the arguments an aggregator is called with; 1 stands for no argument
Arguments(name) ==
    IF name \in {"getLatestBlocks", "getLatestTransactions", "getGasUsageHistory",
                 "getRecentEvents"}
    THEN 1..MaxCount
    ELSE IF name = "getNewEventsSince" THEN 0..MaxCount ELSE {1}

\* a caller invokes an aggregator
AggCall ==
    /\ agg.pc \in {"idle", "done"}
    /\ \E name \in Aggregators : \E c \in Arguments(name) : agg' = StartOf(name, c)
    /\ aggOut' = Running
    /\ UNCHANGED notAgg

\* getLatestBlockNumber() answered with ans, at the head of an aggregator
\* that goes on at pc next
AfterHeight(a, ans, next) ==
    IF ans.o = "ok"
    THEN Go([a EXCEPT !.h = ans.h, !.pc = next, !.first = "ok"])
    ELSE Throw([a EXCEPT !.first = ans.o])

\* Promise.all over the block requests answered with pattern p: it rejects
\* when one of them failed
AnyFailed(p) == \E b \in DOMAIN p : p[b].o \notin {"ok", "null"}

getLatestBlocks ==
    /\ agg.name = "getLatestBlocks"
    /\ \/ /\ agg.pc = "height"
          /\ \E ans \in HeightAnswers(PROXY_URL) : Takes(AfterHeight(agg, ans, "blocks"))
       \/ /\ agg.pc = "blocks"
          /\ \E p \in BlockPatterns({b \in Back(agg.h, agg.count) : b >= 0}, PROXY_URL) :
               Takes(IF AnyFailed(p) THEN Throw(agg)
                     ELSE Ret([agg EXCEPT !.nulls = {b \in DOMAIN p : p[b].o = "null"}],
                              Descending({b \in DOMAIN p : p[b].o = "ok"})))

Min(x, y) == IF x <= y THEN x ELSE y

\* seq.reverse()
Reverse(seq) == [j \in 1..Len(seq) |-> seq[Len(seq) + 1 - j]]

\* the elements of a sequence
Range(seq) == {seq[j] : j \in 1..Len(seq)}

\* seq.slice(0, n)
Take(seq, n) == SubSeq(seq, 1, Min(n, Len(seq)))

\* the newest and the oldest block of S: the blocks a batch is followed
\* without
Ends(S) == {b \in S : (\A x \in S : x <= b) \/ (\A x \in S : x >= b)}

\* the subsets of S of at most k elements
RECURSIVE AtMost(_, _)
AtMost(S, k) ==
    IF k = 0 THEN {{}}
    ELSE LET fewer == AtMost(S, k - 1) IN fewer \cup {T \cup {x} : T \in fewer, x \in S}

\* the `to` fields of the transactions of a block, an address being written
\* as a positive number and a contract creation as Null: no transaction, a
\* call, a call of one address with a creation and two calls of another,
\* and calls of one address more than the list shows
ToFields ==
    {<<>>, <<1>>, <<1, Null, 2, 2>>, [j \in 1..(TOP_CONTRACTS_SHOWN + 1) |-> j]}

\* the heights at which getTopContracts runs out of chain, and one at which
\* it asks for TOP_CONTRACT_BLOCKS blocks
TopContractHeights == Heights \cup {TOP_CONTRACT_BLOCKS + MaxHeight}

\* the answers to the requests for the blocks numbered in nums, issued
\* together with full transactions: the latest block with one list of `to`
\* fields and the blocks before it with another, and at most MaxMissing of
\* the newest and the oldest block answered with null or an error
TopContractPatterns(nums, url) ==
    UNION {{[b \in nums |->
               IF b \in bad THEN [o |-> ends[b], to |-> <<>>]
               ELSE [o |-> "ok", to |-> IF \A x \in nums : x <= b THEN latest ELSE older]]
              : latest \in ToFields, older \in ToFields,
                ends \in [bad -> {"null"} \cup Errors(url)]}
           : bad \in AtMost(Ends(nums), MaxMissing)}

\* contractTxCount[to] = (contractTxCount[to] || 0) + 1 on the entries of
\* contractTxCount, which are kept in the order their keys were set
Counted(entries, to) ==
    IF \E j \in 1..Len(entries) : entries[j].address = to
    THEN LET j == CHOOSE j \in 1..Len(entries) : entries[j].address = to
         IN  SubSeq(entries, 1, j - 1)
                 \o <<[address |-> to, transactions |-> entries[j].transactions + 1]>>
                 \o SubSeq(entries, j + 1, Len(entries))
    ELSE Append(entries, [address |-> to, transactions |-> 1])

\* Object.entries(contractTxCount) after blocks.forEach over the blocks bs of
\* the answers p, from transaction t of the first of them on; a transaction
\* without `to` is passed over (the test of counted has the entries worked
\* out before the next transaction is taken)
RECURSIVE contractTxCount(_, _, _, _)
contractTxCount(bs, p, t, entries) ==
    IF bs = <<>> THEN entries
    ELSE IF t > Len(p[bs[1]].to) THEN contractTxCount(Tail(bs), p, 1, entries)
    ELSE LET counted == IF p[bs[1]].to[t] = Null THEN entries
                        ELSE Counted(entries, p[bs[1]].to[t])
         IN  IF counted = <<>> THEN contractTxCount(bs, p, t + 1, <<>>)
             ELSE contractTxCount(bs, p, t + 1, counted)

\* entries.sort((a, b) => b[1] - a[1]): the largest count first, the entries
\* of one count in the order they had
RECURSIVE SortByCount(_)
SortByCount(entries) ==
    IF entries = <<>> THEN <<>>
    ELSE LET m == CHOOSE j \in 1..Len(entries) :
                    /\ \A k \in 1..Len(entries) :
                         entries[k].transactions <= entries[j].transactions
                    /\ \A k \in 1..(j - 1) :
                         entries[k].transactions < entries[j].transactions
         IN  <<entries[m]>>
                 \o SortByCount(SubSeq(entries, 1, m - 1) \o SubSeq(entries, m + 1, Len(entries)))

\* the entries cut to the list's length without being sorted
TopContractsOf_Unsorted(entries) == Take(entries, TOP_CONTRACTS_SHOWN)

\* Object.entries(contractTxCount).sort(...).slice(0, 10)
TopContractsOf(entries) == Take(SortByCount(entries), TOP_CONTRACTS_SHOWN)

getTopContracts ==
    /\ agg.name = "getTopContracts"
    /\ \/ /\ agg.pc = "height"
          /\ \E ans \in HeightAnswersAt(TopContractHeights, PROXY_URL) :
               Takes(AfterHeight(agg, ans, "blocks"))
       \/ /\ agg.pc = "blocks"
          /\ \E p \in TopContractPatterns({b \in Back(agg.h, TOP_CONTRACT_BLOCKS) : b >= 0},
                                          PROXY_URL) :
               LET a == [agg EXCEPT !.todo = p] IN
               Takes(IF AnyFailed(p) THEN Throw(agg)
                     ELSE Ret(a, TopContractsOf(
                                    contractTxCount(Descending({b \in DOMAIN p : p[b].o = "ok"}),
                                                    p, 1, <<>>))))

\* the answers to eth_getBlockByNumber('latest', ...): the block at height
\* h with n transactions, null, or an error
LatestAnswers(hs, url) ==
    {[o |-> "ok", h |-> h, n |-> n] : h \in hs, n \in 0..MaxTxs}
        \cup {[o |-> "null", h |-> 0, n |-> 0]} \cup {[o |-> e, h |-> 0, n |-> 0] : e \in Errors(url)}

\* the answers to eth_getTransactionReceipt: a receipt with status 1 or 0,
\* null, or an error
ReceiptAnswers(url) == {"status1", "status0", "null"} \cup Errors(url)

\* hexToNumber(receipt.status) of an answered receipt, null without one
StatusOf(o) == IF o = "status1" THEN 1 ELSE IF o = "status0" THEN 0 ELSE Null

\* seq.sort((a, b) => b.time - a.time): the newest first, the entries of
\* one time in the order they had
RECURSIVE SortNewestFirst(_)
SortNewestFirst(seq) ==
    IF seq = <<>> THEN <<>>
    ELSE LET m == CHOOSE j \in 1..Len(seq) :
                    /\ \A k \in 1..Len(seq) : seq[k].time <= seq[j].time
                    /\ \A k \in 1..(j - 1) : seq[k].time < seq[j].time
         IN  <<seq[m]>> \o SortNewestFirst(SubSeq(seq, 1, m - 1) \o SubSeq(seq, m + 1, Len(seq)))

\* no result yet at a position of the array of transaction promises
NoTransaction == [tx |-> 0, status |-> Null]

\* the request for the receipt of transaction j, not settled yet; the
\* receipt on the chain has status receiptStatus
PendingReceipt(receiptStatus) ==
    [receiptStatus |-> receiptStatus, outcome |-> "pending", arrival |-> 0]

\* the transactions whose receipt wait is not over
AwaitedReceipts(a) == {j \in 1..a.t : a.todo[j].outcome = "pending"}

\* the position the result of transaction j would take in arrival order
Position_OfArrival(j, arrived) == arrived + 1

\* the position of the result of transaction j in the array that
\* transactionsToProcess.map(async tx => ...) gives, when arrived receipt
\* waits are over: its position in the block
Position(j, arrived) == j

\* the receipt wait of transaction j ends with outcome o: the promise of j
\* fulfils with the transaction and the status of the receipt, or with the
\* transaction and status null; Promise.allSettled settles with the last
\* one, and the fulfilled values are returned
ReceiptWaitEnds(a, j, o) ==
    LET arrived == a.t - Cardinality(AwaitedReceipts(a))
        tx  == [tx |-> j, status |-> IF o = "receipt" THEN a.todo[j].receiptStatus ELSE Null]
        a1  == [a EXCEPT !.todo[j].outcome = o, !.todo[j].arrival = arrived + 1,
                         !.acc[Position(j, arrived)] = tx]
    IN  IF AwaitedReceipts(a1) = {} THEN Ret(a1, a1.acc) ELSE Go(a1)

\* getBlockByNumber('latest', true) settles; with transactions in the block,
\* the receipt of each of the first count ones is requested
LatestTransactionsBlockSettles ==
    /\ agg.name = "getLatestTransactions"
    /\ agg.pc = "latest"
    /\ \E ans \in LatestAnswers({0}, PROXY_URL) :
         LET a == [agg EXCEPT !.first = ans.o, !.i = ans.n] IN
         CASE ans.o = "ok" /\ ans.n > 0 ->
                \E receiptStatus \in [1..Min(a.count, ans.n) -> {0, 1}] :
                  Takes(Go([a EXCEPT !.pc = "receipts",
                                     !.t = Min(a.count, ans.n),
                                     !.todo = [j \in 1..Min(a.count, ans.n) |->
                                                 PendingReceipt(receiptStatus[j])],
                                     !.acc = [j \in 1..Min(a.count, ans.n) |-> NoTransaction]]))
           [] ans.o = "ok" /\ ans.n = 0 -> Takes(Ret(a, <<>>))
           [] ans.o = "null" -> Takes(Ret(a, <<>>))
           [] OTHER -> Takes(Throw(a))

\* getTransactionReceipt(tx.hash) of transaction j settles before the timer
ReceiptSettles(j) ==
    /\ agg.name = "getLatestTransactions"
    /\ agg.pc = "receipts"
    /\ j \in AwaitedReceipts(agg)
    /\ \E o \in {"receipt", "null"} \cup Errors(PROXY_URL) : Takes(ReceiptWaitEnds(agg, j, o))

\* a race without the timer
ReceiptTimesOut_Never(j) ==
    /\ FALSE
    /\ UNCHANGED vars

\* the 3000 ms timer of transaction j fires before its receipt request settled
ReceiptTimesOut(j) ==
    /\ agg.name = "getLatestTransactions"
    /\ agg.pc = "receipts"
    /\ j \in AwaitedReceipts(agg)
    /\ Takes(ReceiptWaitEnds(agg, j, "Timeout"))

getLatestTransactions ==
    \/ LatestTransactionsBlockSettles
    \/ \E j \in 1..MaxCount : ReceiptSettles(j)
    \/ \E j \in 1..MaxCount : ReceiptTimesOut(j)

\* a caller invokes getLatestTransactions
CallLatestTransactions ==
    /\ agg.pc \in {"idle", "done"}
    /\ \E c \in Arguments("getLatestTransactions") : agg' = StartOf("getLatestTransactions", c)
    /\ aggOut' = Running
    /\ UNCHANGED notAgg

NextLatestTransactions ==
    \/ CallLatestTransactions
    \/ getLatestTransactions

\* a timer that is set fires
TimersFire == \A j \in 1..MaxCount : WF_vars(ReceiptTimesOut(j))

\* the heights at which the block 10 behind the latest exists, or does not
DashboardHeights == Heights \cup {h + 10 : h \in Heights}

\* a fetch getDashboardMetrics made: how it was answered, and the figure the
\* answer carries (transactions of the block, or seconds between the blocks)
SubStep(step, o, n) == [step |-> step, o |-> o, n |-> n]

getDashboardMetrics ==
    /\ agg.name = "getDashboardMetrics"
    /\ \/ /\ agg.pc = "latest"
          /\ \E ans \in LatestAnswers(DashboardHeights, ALCHEMY_RPC_URL) :
               LET a == [agg EXCEPT !.first = ans.o,
                                    !.steps = Append(@, SubStep("latest", ans.o, ans.n))] IN
               Takes(IF ans.o = "ok"
                     THEN Go([a EXCEPT !.pc = "older", !.h = ans.h, !.t = ans.n,
                                       !.acc = [ZeroMetrics EXCEPT !.latestBlock = ans.h,
                                                                   !.txsInLastBlock = ans.n,
                                                                   !.totalTxs = ans.h * ans.n,
                                                                   !.avgTxValue = "0.0000"]])
                     ELSE Throw(a))
       \/ /\ agg.pc = "older"
          \* timeDifference between the two blocks, in seconds, when the older
          \* block is answered
          /\ \E o \in {"ok", "null"} \cup Errors(ALCHEMY_RPC_URL), dt \in {0, 10} :
               /\ agg.h - 10 < 0 => o = "ProtocolFailure"
               /\ LET bpm == IF o = "ok" /\ dt > 0 THEN 600 \div dt ELSE 0 IN
                  Takes(Go([agg EXCEPT !.pc = "full",
                                       !.steps = Append(@, SubStep("older", o, dt)),
                                       !.acc = [@ EXCEPT !.blocksPerMin = bpm,
                                                         !.txsPerMin = agg.t * bpm]]))
       \/ /\ agg.pc = "full"
          /\ \E ans \in BlockAnswers(ALCHEMY_RPC_URL) :
               Takes(Ret([agg EXCEPT !.steps = Append(@, SubStep("full", ans.o, ans.n))],
                         [agg.acc EXCEPT !.avgTxValue =
                            IF ans.o = "ok" /\ ans.n > 0 THEN "average" ELSE "0.0000"]))

\* the ways a batch call settles when its sub-responses are not looked at
BatchFailures == {"transport_failure", "not_array"}

\* the transactions of a block, each with its hash (its place in the block)
\* and its gas limit
GasTransactions(limits) == [j \in 1..Len(limits) |-> [hash |-> j, gas |-> limits[j]]]

\* the latest blocks of the gas overview: every block of at most MaxTxs
\* transactions with gas limits in 1..MaxGas, and blocks of one transaction
\* more than the overview shows, their gas limits going round 1..MaxGas
\* from each start
GasBlocks ==
    {GasTransactions(limits) : limits \in UNION {[1..n -> 1..MaxGas] : n \in 0..MaxTxs}}
        \cup {GasTransactions([j \in 1..(HIGH_GAS_TOP + 1) |-> ((j + k) % MaxGas) + 1])
                  : k \in 0..(MaxGas - 1)}

\* the place transaction j of txs takes under
\* .sort((a, b) => parseInt(b.gas, 16) - parseInt(a.gas, 16)), a sort that
\* keeps the order of equal elements
PlaceByGas(txs, j) ==
    1 + Cardinality({k \in 1..Len(txs) :
                        \/ txs[k].gas > txs[j].gas
                        \/ txs[k].gas = txs[j].gas /\ k < j})

SortedByGas(txs) ==
    [place \in 1..Len(txs) |-> txs[CHOOSE j \in 1..Len(txs) : PlaceByGas(txs, j) = place]]

\* the first five transactions of the block as it came
HighGasTxsOf_Unsorted(txs) ==
    [j \in 1..Min(Len(txs), HIGH_GAS_TOP) |-> [hash |-> txs[j].hash, gasUsed |-> txs[j].gas]]

\* .sort(...).slice(0, 5).map(tx => ({ hash, gasUsed: parseInt(tx.gas, 16), ... }))
HighGasTxsOf(txs) ==
    LET sorted == SortedByGas(txs)
    IN  [j \in 1..Min(Len(txs), HIGH_GAS_TOP) |->
            [hash |-> sorted[j].hash, gasUsed |-> sorted[j].gas]]

\* the requests of a batch of n that the answer data leaves without a result
Unresolved(data, n) ==
    {id \in 0..(n - 1) : ~\E j \in 1..Len(data) : data[j].id = id /\ ~data[j].error}

getGasOverviewData ==
    /\ agg.name = "getGasOverviewData"
    /\ agg.pc = "batch"
    /\ \/ \E f \in BatchFailures : Takes(Throw([agg EXCEPT !.first = f]))
       \* the gas price is 0 or not, and the latest block holds txs
       \/ \E data \in ProviderArrays(2), txs \in GasBlocks, price \in 0..1 :
            LET out == BatchResults(data)
                a   == [agg EXCEPT !.first = "ok", !.todo = txs,
                                   !.nulls = Unresolved(data, 2)]
            IN  Takes(IF Len(out) < 2 \/ out[1] = Null \/ out[2] = Null
                      THEN Throw(a)
                      ELSE Ret(a, [baseFee |-> IF price > 0 THEN "80%" ELSE "0.00",
                                   priorityFee |-> IF price > 0 THEN "20%" ELSE "0.00",
                                   highGasTxs |-> HighGasTxsOf(txs)]))

\* the heights at which the block 100 behind the latest exists, or does not
GasHistoryHeights == Heights \cup {h + 100 : h \in Heights}

\* the chains of the gas history: block b carries the timestamp
\* base + step * b; the chains that start at 0 have gasUsed 21000 in every
\* block, those that start at 50 in every odd block
GasChains ==
    {[base |-> base, step |-> step, gas |-> IF base = 0 THEN "every" ELSE "odd"] :
        base \in {0, 50}, step \in {0, 20, 60}}

TimestampOf(chain, b) == chain.base + chain.step * b

GasUsedOf(chain, b) == IF chain.gas = "every" \/ b % 2 = 1 THEN 21000 ELSE 0

\* Math.ceil(blocksPerMinute * minutes) when the older block came and lies
\* before the latest one in time, minutes * 20 otherwise
BlocksToFetch(minutes, older, timeDiff, blockDiff) ==
    IF older = "ok" /\ timeDiff > 0 /\ blockDiff > 0
    THEN (60 * blockDiff * minutes + timeDiff - 1) \div timeDiff
    ELSE minutes * GAS_HISTORY_BLOCKS_PER_MINUTE

\* the block numbers the batch asks for
BlockNumbersToFetch(latest, blocksToFetch) ==
    [j \in 1..Min(blocksToFetch, latest) |-> latest - (j - 1)]

\* the minute a timestamp lies in
MinuteKey(timestamp) == timestamp \div 60

\* what blocks.forEach has added under minuteKey after the blocks bs[i..]
RECURSIVE CurrentGas(_, _, _, _)
CurrentGas(bs, chain, minuteKey, i) ==
    IF i > Len(bs) THEN 0
    ELSE (IF MinuteKey(TimestampOf(chain, bs[i])) = minuteKey
          THEN GasUsedOf(chain, bs[i]) ELSE 0) + CurrentGas(bs, chain, minuteKey, i + 1)

\* gasUsageMap after blocks.forEach over the blocks bs: a key for every
\* minute that holds a block
GasUsageMap(bs, chain) ==
    [minuteKey \in {MinuteKey(TimestampOf(chain, bs[i])) : i \in 1..Len(bs)} |->
        CurrentGas(bs, chain, minuteKey, 1)]

\* the label of a minute: its hour and minute of the day
TimeLabel(minuteKey) == minuteKey % 1440

\* finalData as the loop over i builds it
FinalData(minutes, nowTimestamp, map) ==
    [j \in 1..minutes |->
        LET minuteKey == MinuteKey(nowTimestamp - (j - 1) * 60)
        IN  [time |-> TimeLabel(minuteKey),
             gasUsed |-> IF minuteKey \in DOMAIN map THEN map[minuteKey] ELSE 0]]

\* finalData returned in the order the loop built it
GasHistory_NewestFirst(minutes, nowTimestamp, map) == FinalData(minutes, nowTimestamp, map)

\* return finalData.reverse()
GasHistory(minutes, nowTimestamp, map) == Reverse(FinalData(minutes, nowTimestamp, map))

getGasUsageHistory ==
    /\ agg.name = "getGasUsageHistory"
    /\ \/ /\ agg.pc = "latest"
          /\ \E ans \in LatestAnswers(GasHistoryHeights, PROXY_URL), chain \in GasChains :
               LET a == [agg EXCEPT !.first = ans.o] IN
               Takes(CASE ans.o = "ok" -> Go([a EXCEPT !.pc = "older", !.h = ans.h, !.todo = chain])
                       [] ans.o = "null" -> Ret(a, <<>>)
                       [] OTHER -> Throw(a))
       \/ /\ agg.pc = "older"
          /\ \E o \in {"ok", "null"} \cup Errors(PROXY_URL) :
               /\ agg.h - 100 < 0 => o = "ProtocolFailure"
               /\ Takes(IF o \in {"ok", "null"}
                        THEN Go([agg EXCEPT
                                   !.pc = "batch",
                                   !.i = BlocksToFetch(agg.count, o,
                                            TimestampOf(agg.todo, agg.h)
                                                - TimestampOf(agg.todo, agg.h - 100), 100)])
                        ELSE Throw(agg))
       \/ /\ agg.pc = "batch"
          /\ \/ \E f \in BatchFailures : Takes(Throw(agg))
             \/ \E nulls \in AtMost(Ends(Range(BlockNumbersToFetch(agg.h, agg.i))), MaxMissing) :
                  /\ LET Came(b) == b \notin nulls
                         fetched == SelectSeq(BlockNumbersToFetch(agg.h, agg.i), Came)
                     IN  Takes(Ret([agg EXCEPT !.nulls = nulls, !.acc = Range(fetched)],
                                   GasHistory(agg.count, TimestampOf(agg.todo, agg.h),
                                              GasUsageMap(fetched, agg.todo))))

\* the newest deployments first, at most MAX_DEPLOYMENTS of them
SortedDeployments(deployments) == Take(SortNewestFirst(deployments), MAX_DEPLOYMENTS)

\* the heights at which the scan runs out of chain, and one at which it
\* runs out of blocks to scan
DeploymentHeights == Heights \cup {DEPLOYMENT_BLOCKS + MaxHeight}

\* the deployment transactions a block can hold: a few, or more than half of
\* MAX_DEPLOYMENTS
DeploymentCounts == (0..MaxTxs) \cup {MAX_DEPLOYMENTS \div 2 + 1}

\* the chains of height h, as the number of deployment transactions of each
\* block: the same number in every block, or, for a short chain, any numbers
DeploymentChains(h) ==
    {[b \in 0..h |-> k] : k \in DeploymentCounts}
        \cup (IF h <= MaxHeight THEN [0..h -> 0..MaxTxs] ELSE {})

\* the head of the loop over the last DEPLOYMENT_BLOCKS blocks, at index i
DeploymentLoop(a) ==
    IF a.i < DEPLOYMENT_BLOCKS /\ a.h - a.i >= 0
    THEN Go([a EXCEPT !.pc = "block", !.fetched.blocks = @ + 1])
    ELSE Ret(a, SortedDeployments(a.acc))

\* the end of an iteration that goes on whatever was collected
DeploymentBlockDone_NoCap(a) == DeploymentLoop([a EXCEPT !.i = @ + 1])

\* the end of an iteration of that loop
DeploymentBlockDone(a) ==
    IF Len(a.acc) >= MAX_DEPLOYMENTS
    THEN Ret(a, SortedDeployments(a.acc))
    ELSE DeploymentLoop([a EXCEPT !.i = @ + 1])

\* the deployments collected without their fees
FeesMissing(a) == {j \in 1..Len(a.acc) : a.acc[j].fees = "N/A"}

\* the requests of the call that were answered with null or failed without
\* ending the call; at most MaxMissing of them are
Unanswered(a) == Cardinality(a.nulls) + Cardinality(FeesMissing(a))

\* the next deployment transaction of the block: its receipt is requested
DeploymentReceipt(a) == Go([a EXCEPT !.pc = "receipt", !.fetched.receipts = @ + 1])

getRecentDeployments ==
    /\ agg.name = "getRecentDeployments"
    /\ \/ /\ agg.pc = "height"
          /\ \/ \E h \in DeploymentHeights : \E chain \in DeploymentChains(h) :
                  Takes(DeploymentLoop([agg EXCEPT !.h = h, !.first = "ok", !.todo = chain]))
             \/ \E e \in Errors(PROXY_URL) : Takes(Throw([agg EXCEPT !.first = e]))
       \/ /\ agg.pc = "block"
          \* the block is answered with its transactions, with null, or not
          /\ \E o \in {"ok", "null"} \cup Errors(QUICKNODE_RPC_URL) :
               /\ o = "null" => Unanswered(agg) < MaxMissing
               /\ LET n == agg.todo[agg.h - agg.i] IN
                  Takes(CASE o = "ok" /\ n > 0 -> DeploymentReceipt([agg EXCEPT !.t = n])
                          [] o = "ok" -> DeploymentBlockDone(agg)
                          [] o = "null" ->
                               DeploymentBlockDone([agg EXCEPT !.nulls = @ \cup {agg.h - agg.i}])
                          [] OTHER -> Throw(agg))
       \/ /\ agg.pc = "receipt"
          /\ \E o \in {"ok", "null"} \cup Errors(QUICKNODE_RPC_URL) :
               /\ o # "ok" => Unanswered(agg) < MaxMissing
               /\ LET d == [blockNumber |-> agg.h - agg.i, time |-> agg.h - agg.i,
                            fees |-> IF o = "ok" THEN "MON" ELSE "N/A"]
                      a == [agg EXCEPT !.acc = Append(@, d), !.t = @ - 1]
                  IN  Takes(IF Len(a.acc) < MAX_DEPLOYMENTS /\ a.t > 0
                            THEN DeploymentReceipt(a)
                            ELSE DeploymentBlockDone(a))

\* the transactions a block of the scanned chain holds: none, one, or
\* more than the scan looks at
EventTxCounts == {0, 1, EVENT_TXS_PER_BLOCK + 1}

\* the answers to the requests for the blocks numbered in nums, issued
\* together by the scan; a negative number is answered with an error
EventBlockPatterns(nums, url) ==
    {p \in [nums -> {[o |-> "ok", n |-> n] : n \in EventTxCounts}
                      \cup {[o |-> "null", n |-> 0]} \cup {[o |-> e, n |-> 0] : e \in Errors(url)}] :
       \A b \in nums : b < 0 => p[b].o = "ProtocolFailure"}

\* what a transaction is: `to` is null or '0x', its receipt has status 0,
\* its value is above 1, its gas is above 500000
TxKind(creation, failed, large, highGas) ==
    [creation |-> creation, failed |-> failed, large |-> large, highGas |-> highGas]

\* the transactions of the scanned chain are all of one kind
TxKinds ==
    {TxKind(FALSE, FALSE, FALSE, FALSE), TxKind(TRUE, TRUE, TRUE, TRUE),
     TxKind(FALSE, TRUE, FALSE, FALSE), TxKind(TRUE, FALSE, TRUE, TRUE)}

\* the blocks answered with pattern p, in the order nums of their requests:
\* the number of each, how many transactions it holds and how many of them
\* are looked at
Scanned(nums, p, kind) ==
    [j \in 1..Len(nums) |-> [b |-> nums[j],
                             all |-> IF p[nums[j]].o = "ok" THEN p[nums[j]].n ELSE 0,
                             n |-> IF p[nums[j]].o = "ok"
                                   THEN Min(p[nums[j]].n, EVENT_TXS_PER_BLOCK) ELSE 0,
                             kind |-> kind]]

\* what the scan returns: the newest first, and for getRecentEvents at most
\* MAX_EVENTS of them
ScanResult(a) ==
    IF a.name = "getRecentEvents" THEN Take(SortNewestFirst(a.acc), MAX_EVENTS)
    ELSE SortNewestFirst(a.acc)

\* the scan goes on to the next transaction, or returns
RECURSIVE ScanNext(_)
ScanNext(a) ==
    IF a.i > Len(a.todo) THEN Ret(a, ScanResult(a))
    ELSE IF a.t >= a.todo[a.i].n THEN ScanNext([a EXCEPT !.i = @ + 1, !.t = 0])
    ELSE Go([a EXCEPT !.pc = "receipt"])

\* Promise.all over the block requests nums answered with pattern p
AfterBlocks(a, nums, p, kind) ==
    IF AnyFailed(p) THEN Throw(a)
    ELSE ScanNext([a EXCEPT !.todo = Scanned(nums, p, kind), !.i = 1, !.t = 0])

\* the body of the loop with the whole of it inside the try
EventTypes_AllInTry(kind, answered) ==
    IF answered
    THEN (IF kind.creation THEN <<"Contract Creation">> ELSE <<>>)
            \o (IF kind.failed THEN <<"Failed Transaction">> ELSE <<>>)
            \o (IF kind.large THEN <<"Large Transfer">> ELSE <<>>)
            \o (IF kind.highGas THEN <<"High Gas Usage">> ELSE <<>>)
    ELSE <<>>

\* the events the body of the loop pushes for a transaction of that kind,
\* its receipt being answered or not
EventTypes(kind, answered) ==
    (IF kind.creation THEN <<"Contract Creation">> ELSE <<>>)
        \o (IF answered /\ kind.failed THEN <<"Failed Transaction">> ELSE <<>>)
        \o (IF kind.large THEN <<"Large Transfer">> ELSE <<>>)
        \o (IF kind.highGas THEN <<"High Gas Usage">> ELSE <<>>)

\* the request for the receipt of the transaction under the scan settles:
\* answered, answered with null, or failed; at most MaxMissing receipts of a
\* call are not answered.  Every event holds the number and time of its
\* block and the position of its transaction
ScanReceipt ==
    /\ agg.pc = "receipt"
    /\ \E o \in {"answered", "null"} \cup Errors(PROXY_URL) :
         /\ o # "answered" => Cardinality(agg.nulls) < MaxMissing
         /\ LET b == agg.todo[agg.i].b
                tx == agg.t + 1
                types == EventTypes(agg.todo[agg.i].kind, o = "answered")
                events == [j \in 1..Len(types) |->
                             [blockNumber |-> b, time |-> b, type |-> types[j], tx |-> tx]]
            IN  Takes(ScanNext([agg EXCEPT !.acc = @ \o events,
                                          !.t = @ + 1,
                                          !.nulls = IF o = "answered" THEN @
                                                    ELSE @ \cup {<<b, tx>>}]))

getRecentEvents ==
    /\ agg.name = "getRecentEvents"
    /\ \/ /\ agg.pc = "height"
          /\ \E ans \in HeightAnswers(PROXY_URL) : Takes(AfterHeight(agg, ans, "blocks"))
       \/ /\ agg.pc = "blocks"
          /\ LET nums == [j \in 1..agg.count |-> agg.h - (j - 1)] IN
             \E p \in EventBlockPatterns(Back(agg.h, agg.count), PROXY_URL), kind \in TxKinds :
               Takes(AfterBlocks(agg, nums, p, kind))
       \/ ScanReceipt

\* lastBlockNumber is agg.count
getNewEventsSince ==
    /\ agg.name = "getNewEventsSince"
    /\ \/ /\ agg.pc = "height"
          /\ \E ans \in HeightAnswers(PROXY_URL) :
               Takes(IF ans.o = "ok" /\ ans.h <= agg.count
                     THEN Ret([agg EXCEPT !.h = ans.h, !.first = "ok"], <<>>)
                     ELSE AfterHeight(agg, ans, "blocks"))
       \/ /\ agg.pc = "blocks"
          /\ LET nums == [j \in 1..(agg.h - agg.count) |-> agg.count + j] IN
             \E p \in EventBlockPatterns((agg.count + 1)..agg.h, PROXY_URL), kind \in TxKinds :
               Takes(AfterBlocks(agg, nums, p, kind))
       \/ ScanReceipt

NextAgg ==
    \/ AggCall
    \/ getLatestBlocks
    \/ getLatestTransactions
    \/ getDashboardMetrics
    \/ getGasOverviewData
    \/ getGasUsageHistory
    \/ getTopContracts
    \/ getRecentDeployments
    \/ getRecentEvents
    \/ getNewEventsSince

(***************************************************************************)
(* BlocksSection: fetchInitialBlocks on mount, then pollForNewBlocks on    *)
(* every tick of a 5-second interval.  A poll that is still waiting for    *)
(* an answer when the next tick comes runs alongside the next poll.  A     *)
(* block is written as its number.                                         *)
(***************************************************************************)
PollSlots == 1..MaxPolls

IdlePoll == [pc |-> "idle", newLatest |-> 0, from |-> 0]

\* the heights the chain can have when the component mounts: the first
\* batch fills the list up to one entry short of its cap, or up to the cap
StartHeights == {BLOCKS_SHOWN - 2, BLOCKS_SHOWN - 1}

BlocksInit ==
    /\ chainHeight = 0
    /\ blocks = <<>>
    /\ latestBlockNumberRef = Null
    /\ initialFetch = [pc |-> "mount", latestBlockNum |-> 0]
    /\ polls = [p \in PollSlots |-> IdlePoll]

\* the arrays a provider answers a batch of n block requests with, request i
\* asking for block numberOf[i]: the sub-responses in ascending or descending
\* order of id, those of at most MaxMissing existing blocks left out or
\* holding null, and those of negative block numbers holding an error
BlockArrays(n, numberOf) ==
    LET ids == 0..(n - 1) IN
    UNION {{LET kept == IF how = "omitted" THEN ids \ bad ELSE ids
                asc  == Reverse(Descending(kept))
            IN  [j \in 1..Len(asc) |->
                    LET id == IF up THEN asc[j] ELSE asc[Len(asc) + 1 - j]
                    IN  [id |-> id, error |-> id \in bad \/ numberOf[id] < 0, result |-> ResultOf(id)]]
              : how \in {"omitted", "null"}, up \in BOOLEAN}
           : bad \in {B \in SUBSET ids : Cardinality(B) <= MaxMissing}}

\* out.filter(Boolean) for the results of a batch of block requests
RECURSIVE Present(_)
Present(out) ==
    IF out = <<>> THEN <<>>
    ELSE (IF out[1] = Null THEN <<>> ELSE <<out[1]>>) \o Present(Tail(out))

\* (await batchBlockVisionData(blockRequests)).filter(Boolean), each block
\* with its number parsed
BlocksOf(out, numberOf) == [j \in 1..Len(Present(out)) |-> numberOf[Present(out)[j]]]

\* the chain grows by a block
NewBlock ==
    /\ initialFetch.pc # "mount"
    /\ chainHeight < MaxChain
    /\ chainHeight' = chainHeight + 1
    /\ UNCHANGED <<blocks, latestBlockNumberRef, initialFetch, polls>>
    /\ UNCHANGED notBlocks

\* the component mounts, the chain at one of the start heights, and
\* fetchInitialBlocks asks for the height
BlocksSectionMounts ==
    /\ initialFetch.pc = "mount"
    /\ chainHeight' \in StartHeights
    /\ initialFetch' = [initialFetch EXCEPT !.pc = "height"]
    /\ UNCHANGED <<blocks, latestBlockNumberRef, polls>>
    /\ UNCHANGED notBlocks

\* fetchInitialBlocks, one await at a time
fetchInitialBlocks ==
    /\ \/ /\ initialFetch.pc = "height"
          /\ \/ initialFetch' = [pc |-> "batch", latestBlockNum |-> chainHeight]
             \/ initialFetch' = [pc |-> "done", latestBlockNum |-> 0]
          /\ UNCHANGED <<blocks, latestBlockNumberRef>>
       \/ /\ initialFetch.pc = "batch"
          /\ initialFetch' = [initialFetch EXCEPT !.pc = "done"]
          /\ \/ UNCHANGED <<blocks, latestBlockNumberRef>>
             \/ LET numberOf == [i \in 0..(BLOCKS_SHOWN - 1) |-> initialFetch.latestBlockNum - i] IN
                \E data \in BlockArrays(BLOCKS_SHOWN, numberOf) :
                  LET initialBlocks == BlocksOf(BatchResults(data), numberOf) IN
                  IF Len(initialBlocks) > 0
                  THEN /\ blocks' = initialBlocks
                       /\ latestBlockNumberRef' = initialBlocks[1]
                  ELSE UNCHANGED <<blocks, latestBlockNumberRef>>
    /\ UNCHANGED <<chainHeight, polls>>
    /\ UNCHANGED notBlocks

\* a tick of the interval: pollForNewBlocks starts and asks for the height;
\* with latestBlockNumberRef.current null it returns at once
PollStarts(p) ==
    /\ polls[p].pc = "idle"
    /\ latestBlockNumberRef # Null
    /\ polls' = [polls EXCEPT ![p] = [IdlePoll EXCEPT !.pc = "height"]]
    /\ UNCHANGED <<chainHeight, blocks, latestBlockNumberRef, initialFetch>>
    /\ UNCHANGED notBlocks

\* getLatestBlockNumber() settles in poll p: on a new height the poll posts
\* the batch for the blocks above latestBlockNumberRef.current
PollHeightSettles(p) ==
    /\ polls[p].pc = "height"
    /\ \/ polls' = [polls EXCEPT ![p] = IdlePoll]
       \/ polls' = [polls EXCEPT ![p] =
                      IF chainHeight > latestBlockNumberRef
                      THEN [pc |-> "batch", newLatest |-> chainHeight,
                            from |-> latestBlockNumberRef + 1]
                      ELSE IdlePoll]
    /\ UNCHANGED <<chainHeight, blocks, latestBlockNumberRef, initialFetch>>
    /\ UNCHANGED notBlocks

\* setBlocks(prevBlocks => [...newBlocks.reverse(), ...prevBlocks].slice(0, 12))
MergeBlocks(newBlocks, prevBlocks) == Take(Reverse(newBlocks) \o prevBlocks, BLOCKS_SHOWN)

\* the batch of poll p settles
PollBatchSettles(p) ==
    /\ polls[p].pc = "batch"
    /\ polls' = [polls EXCEPT ![p] = IdlePoll]
    /\ \/ UNCHANGED <<blocks, latestBlockNumberRef>>
       \/ LET numberOf == [i \in 0..(polls[p].newLatest - polls[p].from) |-> polls[p].from + i] IN
          \E data \in BlockArrays(polls[p].newLatest - polls[p].from + 1, numberOf) :
            LET newBlocks == BlocksOf(BatchResults(data), numberOf) IN
            /\ blocks' = IF Len(newBlocks) > 0 THEN MergeBlocks(newBlocks, blocks) ELSE blocks
            /\ latestBlockNumberRef' = polls[p].newLatest
    /\ UNCHANGED <<chainHeight, initialFetch>>
    /\ UNCHANGED notBlocks

pollForNewBlocks ==
    \E p \in PollSlots : PollStarts(p) \/ PollHeightSettles(p) \/ PollBatchSettles(p)

NextBlocks ==
    \/ BlocksSectionMounts
    \/ NewBlock
    \/ fetchInitialBlocks
    \/ pollForNewBlocks

\* the batch of poll p settles with every block it asked for
PollBatchAnswered(p) ==
    PollBatchSettles(p) /\ Len(blocks') > 0 /\ blocks'[1] = polls[p].newLatest

\* the effect runs and the first fetch settles; the interval keeps ticking
\* and every poll settles; a provider that is asked again and again answers
\* a batch in full in the end
BlocksFairness ==
    /\ WF_vars(BlocksSectionMounts)
    /\ WF_vars(fetchInitialBlocks)
    /\ \A p \in PollSlots :
          /\ WF_vars(PollStarts(p))
          /\ WF_vars(PollHeightSettles(p))
          /\ WF_vars(PollBatchSettles(p))
          /\ SF_vars(PollBatchAnswered(p))

(***************************************************************************)
(* TransactionsSection: fetchTransactions on mount and on every tick of a  *)
(* 5-second interval.  A transaction is written as its hash.               *)
(***************************************************************************)
IdleTxPoll == [pc |-> "idle", newTxHashes |-> <<>>, receipts |-> <<>>]

TxsInit ==
    /\ latestTxs = <<>>
    /\ nextHash = 1
    /\ transactions = <<>>
    /\ seenTxHashes = {}
    /\ txPolls = [p \in PollSlots |-> IdleTxPoll]

\* the chain grows by a block of k transactions that no earlier block holds
NewTxBlock ==
    /\ \E k \in 0..MaxTxs :
         /\ nextHash + k <= MaxHashes + 1
         /\ latestTxs' = [j \in 1..k |-> nextHash + j - 1]
         /\ nextHash' = nextHash + k
    /\ UNCHANGED <<transactions, seenTxHashes, txPolls>>
    /\ UNCHANGED notTxs

\* txHashes.filter(hash => !seenTxHashes.current.has(hash))
RECURSIVE Unseen(_, _)
Unseen(txHashes, seen) ==
    IF txHashes = <<>> THEN <<>>
    ELSE (IF txHashes[1] \in seen THEN <<>> ELSE <<txHashes[1]>>) \o Unseen(Tail(txHashes), seen)

\* a tick of the interval: fetchTransactions starts and asks for the latest
\* block
TxPollStarts(p) ==
    /\ txPolls[p].pc = "idle"
    /\ txPolls' = [txPolls EXCEPT ![p] = [IdleTxPoll EXCEPT !.pc = "latest"]]
    /\ UNCHANGED <<latestTxs, nextHash, transactions, seenTxHashes>>
    /\ UNCHANGED notTxs

\* getBlockByNumber('latest', true) settles in poll p: it failed or answered
\* null, or the poll goes on with the hashes it has not seen
TxLatestSettles(p) ==
    /\ txPolls[p].pc = "latest"
    /\ \/ txPolls' = [txPolls EXCEPT ![p] = IdleTxPoll]
       \/ LET newTxHashes == Unseen(latestTxs, seenTxHashes) IN
          txPolls' = [txPolls EXCEPT ![p] =
                        IF Len(newTxHashes) = 0 THEN IdleTxPoll
                        ELSE [pc |-> "receipts", newTxHashes |-> newTxHashes, receipts |-> <<>>]]
    /\ UNCHANGED <<latestTxs, nextHash, transactions, seenTxHashes>>
    /\ UNCHANGED notTxs

\* the batch of receipt requests of poll p settles, and the batch of
\* transaction requests is posted
TxReceiptsSettle(p) ==
    /\ txPolls[p].pc = "receipts"
    /\ \/ txPolls' = [txPolls EXCEPT ![p] = IdleTxPoll]
       \/ \E data \in ProviderArrays(Len(txPolls[p].newTxHashes)) :
            txPolls' = [txPolls EXCEPT ![p].pc = "txs", ![p].receipts = BatchResults(data)]
    /\ UNCHANGED <<latestTxs, nextHash, transactions, seenTxHashes>>
    /\ UNCHANGED notTxs

\* the loop over newTxHashes: position i gives a transaction when txs[i] and
\* receipts[i] are there; the transaction is the one txs[i] holds
RECURSIVE NewTransactions(_, _, _, _)
NewTransactions(newTxHashes, txs, receipts, i) ==
    IF i > Len(newTxHashes) THEN <<>>
    ELSE (IF i <= Len(txs) /\ i <= Len(receipts) /\ txs[i] # Null /\ receipts[i] # Null
          THEN <<newTxHashes[txs[i] + 1]>> ELSE <<>>)
         \o NewTransactions(newTxHashes, txs, receipts, i + 1)

\* setTransactions(prevTxs => [...newTransactions, ...prevTxs].slice(0, 50))
MergeTransactions(newTransactions, prevTxs) == Take(newTransactions \o prevTxs, TXS_SHOWN)

\* the batch of transaction requests of poll p settles
TxTxsSettle(p) ==
    /\ txPolls[p].pc = "txs"
    /\ txPolls' = [txPolls EXCEPT ![p] = IdleTxPoll]
    /\ \/ UNCHANGED <<transactions, seenTxHashes>>
       \/ \E data \in ProviderArrays(Len(txPolls[p].newTxHashes)) :
            LET newTransactions == NewTransactions(txPolls[p].newTxHashes, BatchResults(data),
                                                   txPolls[p].receipts, 1)
            IN  IF Len(newTransactions) > 0
                THEN /\ seenTxHashes' = seenTxHashes \cup Range(newTransactions)
                     /\ transactions' = MergeTransactions(newTransactions, transactions)
                ELSE UNCHANGED <<transactions, seenTxHashes>>
    /\ UNCHANGED <<latestTxs, nextHash>>
    /\ UNCHANGED notTxs

fetchTransactions ==
    \E p \in PollSlots :
        TxPollStarts(p) \/ TxLatestSettles(p) \/ TxReceiptsSettle(p) \/ TxTxsSettle(p)

NextTxs ==
    \/ NewTxBlock
    \/ fetchTransactions

(***************************************************************************)
(* The panels that show the result of one aggregator and refresh it on an  *)
(* interval: KeyMetrics, GasSection (overview and history),                *)
(* TopContractsSection and DeploymentsSection.  One panel is under study   *)
(* at a time; panel.shown is its React state, panel.lastGood and           *)
(* panel.last are the history of its refreshes.                            *)
(***************************************************************************)
Panels == {"KeyMetrics", "GasOverview", "GasHistory", "TopContracts"}

\* the aggregator each panel calls
PanelAggregator(name) ==
    CASE name = "KeyMetrics" -> "getDashboardMetrics"
      [] name = "GasOverview" -> "getGasOverviewData"
      [] name = "GasHistory" -> "getGasUsageHistory"
      [] name = "TopContracts" -> "getTopContracts"
      [] name = "Deployments" -> "getRecentDeployments"

NoPanel == [name |-> "none", shown |-> <<>>, lastGood |-> <<>>, last |-> "none"]

PanelInit == panel = NoPanel

\* parseFloat(str) > 0 for the strings the aggregators format numbers to
Positive(str) == str \notin {"0", "0.00", "0.0000"}

\* KeyMetrics.isValidStats
isValidStats(metrics) ==
    \/ metrics.latestBlock > 0
    \/ metrics.txsInLastBlock > 0
    \/ metrics.totalTxs > 0
    \/ metrics.blocksPerMin > 0
    \/ metrics.txsPerMin > 0
    \/ Positive(metrics.avgTxValue)

\* GasSection.isValidGasOverview
isValidGasOverview(overview) ==
    \/ Positive(overview.baseFee)
    \/ Positive(overview.priorityFee)
    \/ Len(overview.highGasTxs) > 0

\* a test that lets every history through
isValidGasHistory_Always(history) == TRUE

\* GasSection.isValidGasHistory
isValidGasHistory(history) == Len(history) > 0

\* the state of the panel name after its refresh settled with r: the try
\* block of fetchMetrics, fetchOverview, fetchHistory, fetchContracts and
\* fetchData, and their catch clause that only logs
Refreshed(name, shown, r) ==
    IF r.status = "threw" THEN shown
    ELSE CASE name = "KeyMetrics" -> IF isValidStats(r.value) THEN r.value ELSE shown
           [] name = "GasOverview" -> IF isValidGasOverview(r.value) THEN r.value ELSE shown
           [] name = "GasHistory" -> IF isValidGasHistory(r.value) THEN r.value ELSE shown
           [] name = "TopContracts" -> IF Len(r.value) > 0 THEN r.value ELSE shown
           [] name = "Deployments" -> r.value

\* a refresh that brought nothing: it threw, or its result is the all-zero
\* record or the empty list
EmptyRefresh(name, r) ==
    \/ r.status = "threw"
    \/ CASE name = "KeyMetrics" ->
              /\ r.value.latestBlock = 0 /\ r.value.txsInLastBlock = 0 /\ r.value.totalTxs = 0
              /\ r.value.blocksPerMin = 0 /\ r.value.txsPerMin = 0
              /\ ~Positive(r.value.avgTxValue)
         [] name = "GasOverview" ->
              /\ ~Positive(r.value.baseFee) /\ ~Positive(r.value.priorityFee)
              /\ r.value.highGasTxs = <<>>
         [] OTHER -> r.value = <<>>

\* the panel name as it mounts
Mounted(name) ==
    [name |-> name, shown |-> Empty(PanelAggregator(name)),
     lastGood |-> Empty(PanelAggregator(name)), last |-> "none"]

\* one of the panels that test what their refresh brought mounts
PanelMounts ==
    /\ panel.name = "none"
    /\ \E name \in Panels : panel' = Mounted(name)
    /\ UNCHANGED aggVars
    /\ UNCHANGED notPanels

\* DeploymentsSection mounts
DeploymentsSectionMounts ==
    /\ panel.name = "none"
    /\ panel' = Mounted("Deployments")
    /\ UNCHANGED aggVars
    /\ UNCHANGED notPanels

\* the arguments a panel calls its aggregator with: GasSection always asks
\* for the history of the same number of minutes, the largest followed
PanelArguments(name) ==
    IF name = "GasHistory" THEN {MaxCount} ELSE Arguments(PanelAggregator(name))

\* on mount and on every tick of its interval the panel calls its aggregator
PanelRefreshes ==
    /\ panel.name # "none"
    /\ agg.pc = "idle"
    /\ \E c \in PanelArguments(panel.name) :
         agg' = StartOf(PanelAggregator(panel.name), c)
    /\ aggOut' = Running
    /\ UNCHANGED panel
    /\ UNCHANGED notPanels

\* the aggregator settled and the refresh goes on after its await
PanelTakes ==
    /\ agg.pc = "done"
    /\ agg.name = PanelAggregator(panel.name)
    /\ panel' = [panel EXCEPT
                   !.shown = Refreshed(panel.name, @, aggOut),
                   !.lastGood = IF EmptyRefresh(panel.name, aggOut) THEN @ ELSE aggOut.value,
                   !.last = IF EmptyRefresh(panel.name, aggOut) THEN "empty" ELSE "data"]
    /\ agg' = IdleAgg
    /\ aggOut' = Running
    /\ UNCHANGED notPanels

NextPanels ==
    \/ PanelMounts
    \/ PanelRefreshes
    \/ PanelTakes
    \/ getDashboardMetrics
    \/ getGasOverviewData
    \/ getGasUsageHistory
    \/ getTopContracts

NextDeployments ==
    \/ DeploymentsSectionMounts
    \/ PanelRefreshes
    \/ PanelTakes
    \/ getRecentDeployments

(***************************************************************************)
(* The merges of the cumulative panels: the high-gas transactions of       *)
(* GasSection, the events of EventsLog, the transactions of                *)
(* TransactionsSection.  An entry is written as its key (hash, event id);  *)
(* a list is newest first.                                                 *)
(***************************************************************************)
CumulativePanels == {"GasSection", "EventsLog", "TransactionsSection"}

\* the length each panel cuts its list to
Shown(name) ==
    CASE name = "GasSection" -> HIGH_GAS_SHOWN
      [] name = "EventsLog" -> EVENTS_SHOWN
      [] name = "TransactionsSection" -> TXS_SHOWN

\* seq.filter((x, index, self) => index === self.findIndex(e => e.id === x.id))
RECURSIVE Unique(_)
Unique(seq) ==
    IF seq = <<>> THEN <<>>
    ELSE <<seq[1]>> \o Unique(Unseen(Tail(seq), {seq[1]}))

\* the merge of GasSection with the persisted entries put first
MergeHighGasTxs_PrevFirst(highGasTxs, prev) ==
    Take(Unique(prev \o highGasTxs), HIGH_GAS_SHOWN)

\* setPersistedHighGasTxs(prev => ...): a Map takes the new entries, then the
\* persisted ones whose hash it does not hold; its values are cut to 12
MergeHighGasTxs(highGasTxs, prev) ==
    Take(Unique(highGasTxs) \o Unseen(prev, Range(highGasTxs)), HIGH_GAS_SHOWN)

\* the merge of EventsLog without the filter on ids
MergeEvents_NoFilter(newEvents, prevEvents) ==
    Take(newEvents \o prevEvents, EVENTS_SHOWN)

\* setEvents(prevEvents => ...): the first entry of each id of
\* [...newEvents, ...prevEvents], cut to 20
MergeEvents(newEvents, prevEvents) ==
    Take(Unique(newEvents \o prevEvents), EVENTS_SHOWN)

\* the list <<hi, hi - 1, ..., hi - len + 1>>
Run(hi, len) == [j \in 1..len |-> hi + 1 - j]

\* the keys of the model: enough of them to fill the longest list and more
Keys(name) == 1..(Shown(name) + MaxNew + 1)

\* the lengths of the lists a merge starts from: short ones, and the ones
\* at the cut or close to it
PrevLengths(name) == (0..MaxNew) \cup ((Shown(name) - MaxNew)..Shown(name))

NoMerge ==
    [pc |-> "idle", name |-> "none", new |-> <<>>, prev |-> <<>>, seenBefore |-> {},
     seen |-> {}, list |-> <<>>, once |-> <<>>]

MergeInit == merge = NoMerge

\* a panel in some state gets some aggregator result: the state is a run of
\* keys, the result a run of at most MaxNew keys, apart from the state, next
\* to it or over it; TransactionsSection has seen the hashes it displays,
\* and the older ones or not
MergeDraws ==
    /\ merge.pc = "idle"
    /\ \E name \in CumulativePanels :
       \E len \in PrevLengths(name), lo \in 1..(MaxNew + 1), n \in 0..MaxNew, older \in BOOLEAN :
       \E hi \in {k \in Keys(name) : k - n >= 0} :
         LET seen == IF name = "TransactionsSection"
                     THEN (IF older THEN 1..(lo + len - 1) ELSE lo..(lo + len - 1))
                     ELSE {}
         IN  /\ lo + len - 1 \in Keys(name) \cup {0}
             /\ merge' = [NoMerge EXCEPT
                            !.pc = "drawn",
                            !.name = name,
                            !.new = Run(hi, n),
                            !.prev = Run(lo + len - 1, len),
                            !.list = Run(lo + len - 1, len),
                            !.seenBefore = seen,
                            !.seen = seen]
    /\ UNCHANGED notMerge

\* the panel merges the result into its state: the state and the seen-hash
\* set after the merge
Merged(m) ==
    CASE m.name = "GasSection" ->
           [m EXCEPT !.list = MergeHighGasTxs(m.new, m.list)]
      [] m.name = "EventsLog" ->
           IF Len(m.new) > 0 THEN [m EXCEPT !.list = MergeEvents(m.new, m.list)] ELSE m
      [] m.name = "TransactionsSection" ->
           LET newTransactions == Unseen(m.new, m.seen) IN
           IF Len(newTransactions) > 0
           THEN [m EXCEPT !.seen = @ \cup Range(newTransactions),
                          !.list = MergeTransactions(newTransactions, m.list)]
           ELSE m

\* the result is merged
MergeOnce ==
    /\ merge.pc = "drawn"
    /\ merge' = [Merged(merge) EXCEPT !.pc = "once", !.once = Merged(merge).list]
    /\ UNCHANGED notMerge

\* the same result is merged again
MergeTwice ==
    /\ merge.pc = "once"
    /\ merge' = [Merged(merge) EXCEPT !.pc = "twice"]
    /\ UNCHANGED notMerge

NextMerge ==
    \/ MergeDraws
    \/ MergeOnce
    \/ MergeTwice

(***************************************************************************)
(* Ecosystem health.  getEcosystemHealthMetrics walks back from the latest *)
(* block, one block per request, and reads the status field of the         *)
(* transactions of each block; getRecentEcosystemHealthMetrics(blockCount) *)
(* fetches the latest blockCount blocks in one batch and the receipt of    *)
(* every transaction.  Neither has a try/catch around its body.  A block   *)
(* is written as the numbers of its transactions of status 1, of status 0, *)
(* and without a status; rates are in hundredths of a percent.             *)
(***************************************************************************)
HealthVariants == {"getEcosystemHealthMetrics", "getRecentEcosystemHealthMetrics"}

ChainBlock(ones, zeros, plain) == [ones |-> ones, zeros |-> zeros, plain |-> plain]

\* the blocks of the chain: empty, one transaction, 5% of failed
\* transactions, a little under 5%, only a failed one, one without status,
\* one succeeded of 32
BlockContents ==
    {ChainBlock(0, 0, 0), ChainBlock(1, 0, 0), ChainBlock(19, 1, 0),
     ChainBlock(96, 5, 0), ChainBlock(0, 1, 0), ChainBlock(1, 0, 1),
     ChainBlock(1, 31, 0)}

TxsOf(b) == b.ones + b.zeros + b.plain

\* the sum of what(b) over the blocks, what being "ones", "zeros" or "txs"
RECURSIVE Total(_, _)
Total(bs, what) ==
    IF bs = <<>> THEN 0
    ELSE (CASE what = "ones" -> bs[1].ones
            [] what = "zeros" -> bs[1].zeros
            [] OTHER -> TxsOf(bs[1])) + Total(Tail(bs), what)

\* Number(((count / txCount) * 100).toFixed(2)), in hundredths
Rate(count, txCount) == (2 * count * 10000 + txCount) \div (2 * txCount)

\* successRate > 95 && failedTxRate < 5 ? 'Healthy' : 'Needs Attention',
\* successRate being whenEmpty and failedTxRate 0 without transactions
healthScore(successCount, failedCount, txCount, whenEmpty) ==
    IF (IF txCount > 0 THEN successCount * 100 > 95 * txCount ELSE whenEmpty > 95)
        /\ (txCount > 0 => failedCount * 100 < 5 * txCount)
    THEN "Healthy" ELSE "Needs Attention"

\* the record getEcosystemHealthMetrics returns for the blocks it collected
HealthMetrics(bs) ==
    LET txCount == Total(bs, "txs")
        successCount == Total(bs, "ones")
        failedCount == Total(bs, "zeros")
    IN  [successRate |-> IF txCount > 0 THEN Rate(successCount, txCount) ELSE 10000,
         failedTxRate |-> IF txCount > 0 THEN Rate(failedCount, txCount) ELSE 0,
         healthScore |-> healthScore(successCount, failedCount, txCount, 100),
         blockCount |-> Len(bs),
         txCount |-> txCount]

\* the record getRecentEcosystemHealthMetrics returns for the blocks of the
\* batch, the receipts that came back and the failedBlocks it computed
RecentHealthMetrics(bs, successCount, failedCount, failedBlocks) ==
    LET totalTxCount == Total(bs, "txs")
    IN  [successRate |-> IF totalTxCount > 0 THEN Rate(successCount, totalTxCount) ELSE 0,
         failedTxRate |-> IF totalTxCount > 0 THEN Rate(failedCount, totalTxCount) ELSE 0,
         healthScore |-> healthScore(successCount, failedCount, totalTxCount, 0),
         blockCount |-> Len(bs),
         totalTxCount |-> totalTxCount,
         successCount |-> successCount,
         failedCount |-> failedCount,
         partial |-> failedBlocks # {},
         failedBlocks |-> failedBlocks]

\* if (!blocks.length) return null
NoMetrics == [healthScore |-> "null"]

\* a step of a function without try/catch: what it throws reaches the caller
TakesUncaught(n) ==
    /\ agg' = n.a
    /\ aggOut' = IF n.r.status = "none" THEN aggOut ELSE n.r
    /\ UNCHANGED notAgg

HealthCall ==
    /\ agg.pc \in {"idle", "done"}
    /\ \/ agg' = [IdleAgg EXCEPT !.name = "getEcosystemHealthMetrics", !.pc = "latest"]
       \/ \E c \in 1..MaxCount :
            agg' = [IdleAgg EXCEPT !.name = "getRecentEcosystemHealthMetrics",
                                   !.pc = "height", !.count = c]
    /\ aggOut' = Running
    /\ UNCHANGED notAgg

\* the heights the walk starts at, below and above the 100 blocks the block
\* time is sampled over, and the seconds between two blocks of the chain
HealthHeights == {0, MaxWindow, BLOCK_TIME_SAMPLE + 1}

BlockSeconds == {0, 1, secondsIn24h \div 2, secondsIn24h \div 2 + 100}

\* Math.max(0, latestBlock.number - Math.ceil(secondsIn24h / avgBlockTime)),
\* the quotient being Infinity for avgBlockTime 0
StartBlockNumber(number, avgBlockTime) ==
    IF avgBlockTime = 0 THEN 0
    ELSE LET estBlockCount == (secondsIn24h + avgBlockTime - 1) \div avgBlockTime
         IN  IF number - estBlockCount > 0 THEN number - estBlockCount ELSE 0

\* the test without the comparison of timestamps
InWindow_Unchecked(number, seconds, blockNum) == TRUE

\* block.timestamp >= startTimestamp for block blockNum of a chain of the
\* given seconds per block whose latest block is number
InWindow(number, seconds, blockNum) == seconds * (number - blockNum) <= secondsIn24h

\* agg.h is latestBlock.number, agg.t the seconds between two blocks,
\* agg.count startBlockNumber, agg.i blockNum, agg.todo the blocks collected
\* and agg.acc their numbers; the latest block holds agg.steps[1] and every
\* block below it agg.steps[2], which is as much or nothing
getEcosystemHealthMetrics ==
    /\ agg.name = "getEcosystemHealthMetrics"
    /\ \/ /\ agg.pc = "latest"
          /\ \E o \in {"ok", "null"} \cup Errors(PROXY_URL),
                h \in HealthHeights, s \in BlockSeconds,
                b1 \in BlockContents, same \in BOOLEAN :
               LET b2 == IF same THEN b1 ELSE ChainBlock(0, 0, 0)
                   a  == [agg EXCEPT !.first = o,
                                     !.steps = IF o = "ok" THEN <<b1, b2>> ELSE <<>>]
               IN
               TakesUncaught(
                 IF o # "ok" THEN Throw(a)
                 ELSE IF h > BLOCK_TIME_SAMPLE
                      THEN Go([a EXCEPT !.pc = "hundred", !.h = h, !.t = s, !.i = h])
                      ELSE Go([a EXCEPT !.pc = "window", !.h = h, !.t = s, !.i = h,
                                        !.count = StartBlockNumber(h, 1)]))
       \/ /\ agg.pc = "hundred"
          /\ \E o \in {"ok", "null"} \cup Errors(PROXY_URL) :
               TakesUncaught(
                 IF o \notin {"ok", "null"} THEN Throw(agg)
                 ELSE Go([agg EXCEPT !.pc = "window",
                                     !.count = StartBlockNumber(agg.h, IF o = "ok" THEN agg.t
                                                                       ELSE 1)]))
       \/ /\ agg.pc = "window"
          /\ \/ \* block blockNum is answered: inside the 10 minutes it is
                \* pushed and the loop goes on down to startBlockNumber
                LET b == agg.steps[IF agg.i = agg.h THEN 1 ELSE 2] IN
                  TakesUncaught(
                    IF InWindow(agg.h, agg.t, agg.i)
                    THEN LET a == [agg EXCEPT !.todo = Append(@, b),
                                              !.acc = Append(@, agg.i),
                                              !.i = @ - 1]
                         IN  IF a.i >= a.count THEN Go(a) ELSE Ret(a, HealthMetrics(a.todo))
                    ELSE Ret(agg, HealthMetrics(agg.todo)))
             \/ \* it is null
                TakesUncaught(Ret(agg, HealthMetrics(agg.todo)))
             \/ \E e \in Errors(PROXY_URL) : TakesUncaught(Throw(agg))

\* blockNumbers.filter((num, idx) => !blocks[idx]), blocks being what
\* filter(Boolean) left of the batch
failedBlocks(blockNumbers, present) ==
    {blockNumbers[idx] : idx \in {i \in DOMAIN blockNumbers : i >= Len(present)}}

getRecentEcosystemHealthMetrics ==
    /\ agg.name = "getRecentEcosystemHealthMetrics"
    /\ \/ /\ agg.pc = "height"
          /\ \E ans \in HeightAnswers(QUICKNODE_RPC_URL) :
               LET a == [agg EXCEPT !.first = ans.o] IN
               TakesUncaught(IF ans.o = "ok" THEN Go([a EXCEPT !.pc = "batch", !.h = ans.h])
                             ELSE Throw(a))
       \/ /\ agg.pc = "batch"
          /\ \/ \E f \in BatchFailures : TakesUncaught(Throw(agg))
             \/ LET blockNumbers == [i \in 0..(agg.count - 1) |-> agg.h - i] IN
                \E data \in BlockArrays(agg.count, blockNumbers),
                   contents \in [0..(agg.count - 1) -> BlockContents] :
                  LET present == Present(BatchResults(data))
                      bs == [j \in 1..Len(present) |-> contents[present[j]]]
                      a  == [agg EXCEPT !.todo = bs,
                                        !.acc = failedBlocks(blockNumbers, present),
                                        !.nulls = {blockNumbers[i] : i \in
                                                     (0..(agg.count - 1)) \ Range(present)}]
                  IN  TakesUncaught(
                        IF Len(bs) = 0 THEN Ret(a, NoMetrics)
                        ELSE IF Total(bs, "txs") = 0
                             THEN Ret(a, RecentHealthMetrics(bs, 0, 0, a.acc))
                             ELSE Go([a EXCEPT !.pc = "receipts"]))
       \/ /\ agg.pc = "receipts"
          \* the receipts settle: lost1 of those of status 1 and lost0 of those
          \* of status 0 are null or fail, which the callback turns into null
          /\ \E lost1 \in 0..Min(1, Total(agg.todo, "ones")),
                lost0 \in 0..Min(1, Total(agg.todo, "zeros")) :
               TakesUncaught(Ret([agg EXCEPT !.t = lost1 + lost0],
                                 RecentHealthMetrics(agg.todo,
                                                     Total(agg.todo, "ones") - lost1,
                                                     Total(agg.todo, "zeros") - lost0,
                                                     agg.acc)))

NextHealth ==
    \/ HealthCall
    \/ getEcosystemHealthMetrics
    \/ getRecentEcosystemHealthMetrics

\* every request a call awaits settles, by an answer, an error or a timeout
HealthFairness ==
    WF_vars(getEcosystemHealthMetrics) /\ WF_vars(getRecentEcosystemHealthMetrics)

(***************************************************************************)
(* getContractInfo(contractAddress) without a cancellation: eth_getCode,   *)
(* then four eth_call probes issued together, each inside its own          *)
(* try/catch.  agg.todo holds the answer to each probe, "pending" before.  *)
(***************************************************************************)
ProbeFields == {"name", "symbol", "decimals", "totalSupply"}

\* what eth_getCode answers for an address without code
EmptyCode == {"0x", "0x0", "nothing"}

\* the record returned without probing, with that contractType
NoContractInfo(contractType) ==
    [contractType |-> contractType, name |-> "N/A", symbol |-> "N/A",
     totalSupply |-> "N/A", holders |-> "N/A", decimals |-> "N/A"]

\* a probe whose failure is not caught
call_NoCatch(o) == o

\* const call = async (data) => { try { return await ... } catch { return null } }
call(o) == IF o \in Errors(PROXY_URL) THEN "null" ELSE o

\* decodeString, decodeUint, decodeUint8 of the raw answer to the probe f
Decode(f, raw) == IF raw \in {"null", "0x"} THEN "N/A" ELSE <<"decoded", f>>

\* Promise.all over the four calls has settled with the raw answers: it
\* rejects with the first failure that a call let through, which the outer
\* catch turns into the record of contractType 'N/A'
ProbesDone(a) ==
    IF \E f \in ProbeFields : a.todo[f] \in Errors(PROXY_URL)
    THEN Ret([a EXCEPT !.threw = TRUE], NoContractInfo("N/A"))
    ELSE Ret(a, [contractType |-> "ERC20",
                 name |-> Decode("name", a.todo["name"]),
                 symbol |-> Decode("symbol", a.todo["symbol"]),
                 totalSupply |-> Decode("totalSupply", a.todo["totalSupply"]),
                 holders |-> "N/A",
                 decimals |-> Decode("decimals", a.todo["decimals"])])

ContractInfoCall ==
    /\ agg.pc \in {"idle", "done"}
    /\ agg' = [IdleAgg EXCEPT !.name = "getContractInfo", !.pc = "code"]
    /\ aggOut' = Running
    /\ UNCHANGED notAgg

\* eth_getCode settles
CodeSettles ==
    /\ agg.name = "getContractInfo"
    /\ agg.pc = "code"
    /\ \E o \in EmptyCode \cup {"code"} \cup Errors(PROXY_URL) :
         LET a == [agg EXCEPT !.first = o] IN
         TakesUncaught(CASE o \in EmptyCode -> Ret(a, NoContractInfo("Not a contract"))
                         [] o = "code" ->
                              Go([a EXCEPT !.pc = "probes",
                                           !.todo = [f \in ProbeFields |-> "pending"],
                                           !.steps = [f \in ProbeFields |-> "pending"]])
                         [] OTHER -> Ret([a EXCEPT !.threw = TRUE], NoContractInfo("N/A")))

\* the eth_call of the probe f settles: a value, '0x', null, or a failure;
\* agg.steps keeps how the request ended, agg.todo what call returned
ProbeSettles(f) ==
    /\ agg.name = "getContractInfo"
    /\ agg.pc = "probes"
    /\ agg.todo[f] = "pending"
    /\ \E o \in {"value", "0x", "null"} \cup Errors(PROXY_URL) :
         LET a == [agg EXCEPT !.todo[f] = call(o), !.steps[f] = o] IN
         TakesUncaught(IF \A g \in ProbeFields : a.todo[g] # "pending"
                       THEN ProbesDone(a) ELSE Go(a))

getContractInfo ==
    \/ CodeSettles
    \/ \E f \in ProbeFields : ProbeSettles(f)

NextContractInfo ==
    \/ ContractInfoCall
    \/ getContractInfo

(***************************************************************************)
(* The shell of a polling component: BlocksSection, DeploymentsSection and *)
(* EventsLog each start a fetch and an interval when they mount, show a    *)
(* loading state until the fetch is over, and clear the interval when they *)
(* unmount.  Polls beyond MaxPolls under way are not followed.             *)
(***************************************************************************)
Shells == {"BlocksSection", "DeploymentsSection", "EventsLog"}

\* how a fetch ends: with data, with an empty result, with an error
FetchOutcomes == {"data", "empty", "failed"}

NoShell ==
    [name |-> "none", mounted |-> FALSE, loading |-> FALSE, fetch |-> "none",
     interval |-> FALSE, inflight |-> 0, tick |-> FALSE, last |-> "none",
     lastBlockNumber |-> 0]

ShellInit == shell = NoShell

\* setLoading(false) in the try block only
LoadingAfter_NoFinally(o) == o = "failed"

\* finally { setIsLoading(false) }
LoadingAfter(o) == FALSE

\* the component mounts: its effects start the first fetch, which shows the
\* loading state, and the interval
ShellMounts ==
    /\ shell.name = "none"
    /\ \E p \in Shells :
         shell' = [NoShell EXCEPT !.name = p, !.mounted = TRUE, !.loading = TRUE,
                                  !.fetch = "pending", !.interval = TRUE]
    /\ UNCHANGED notShell

\* EventsLog's interval effect depends on lastBlockNumber: when it changes
\* the interval is cleared and, the component being mounted, set again
AfterLastBlockNumber(sh, n) ==
    [sh EXCEPT !.lastBlockNumber = n,
               !.interval = IF n # sh.lastBlockNumber THEN sh.mounted ELSE @]

\* fetchInitialBlocks, the first fetchData, fetchInitialEvents settle
InitialFetchSettles ==
    /\ shell.fetch = "pending"
    /\ \E o \in FetchOutcomes, n \in Heights :
         LET sh == [shell EXCEPT !.fetch = "done", !.loading = LoadingAfter(o), !.last = o]
         IN  shell' = IF shell.name = "EventsLog" /\ o # "failed"
                      THEN AfterLastBlockNumber(sh, n) ELSE sh
    /\ UNCHANGED notShell

\* the interval fires and starts a poll
IntervalTick ==
    /\ shell.interval
    /\ shell' = [shell EXCEPT !.inflight = Min(@ + 1, MaxPolls), !.tick = ~@]
    /\ UNCHANGED notShell

\* pollForNewBlocks, fetchData, checkForNewEvents settle
PollSettles ==
    /\ shell.inflight > 0
    /\ \E o \in FetchOutcomes, n \in Heights :
         LET sh == [shell EXCEPT !.inflight = @ - 1, !.last = o]
         IN  shell' = CASE shell.name = "DeploymentsSection" ->
                             [sh EXCEPT !.loading = LoadingAfter(o)]
                        [] shell.name = "EventsLog" /\ o = "data" -> AfterLastBlockNumber(sh, n)
                        [] OTHER -> sh
    /\ UNCHANGED notShell

\* EventsLog's refresh button
handleManualRefresh ==
    /\ shell.name = "EventsLog"
    /\ shell.mounted
    /\ shell.fetch = "done"
    /\ shell' = [shell EXCEPT !.loading = TRUE, !.fetch = "pending"]
    /\ UNCHANGED notShell

\* the component unmounts: the cleanup of its effect clears the interval
ShellUnmounts ==
    /\ shell.mounted
    /\ shell' = [shell EXCEPT !.mounted = FALSE, !.interval = FALSE]
    /\ UNCHANGED notShell

NextShell ==
    \/ ShellMounts
    \/ InitialFetchSettles
    \/ IntervalTick
    \/ PollSettles
    \/ handleManualRefresh
    \/ ShellUnmounts

\* an interval that is set fires, and the first fetch comes to an end
ShellFairness == WF_vars(IntervalTick) /\ WF_vars(InitialFetchSettles)

(***************************************************************************)
(* TopContractsSection and its entry 'lastTopContracts' in localStorage.   *)
(* The entry outlives the component: it is read when the component mounts  *)
(* and written by every refresh that brought contracts, a refresh that     *)
(* settles after the unmount included.  The storage takes every write.     *)
(* topContracts.lastGood and topContracts.last are the history of the      *)
(* refreshes.                                                              *)
(***************************************************************************)
NoTopContracts ==
    [mounted |-> FALSE, contracts |-> <<>>, interval |-> FALSE,
     lastGood |-> <<>>, last |-> "none"]

NoItem == [text |-> "null"]

TopInit ==
    /\ topContracts = NoTopContracts
    /\ localStorage = [lastTopContracts |-> NoItem]

\* JSON.stringify of the list getTopContracts returns: its entries hold an
\* address, the empty name and a count of at least 1, which JSON writes out
\* in full
JSON_stringify(value) == [text |-> "array", items |-> value]

\* JSON.parse of a stored text
JSON_parse(item) == item.items

\* the initializer of the contracts state
InitialContracts(storage) ==
    IF storage.lastTopContracts # NoItem THEN JSON_parse(storage.lastTopContracts) ELSE <<>>

\* a refresh that writes the entry whatever it brought
Stored_Always(storage, r) ==
    IF r.status = "threw" THEN storage
    ELSE [storage EXCEPT !.lastTopContracts = JSON_stringify(r.value)]

\* the storage after fetchContracts settled with r
Stored(storage, r) ==
    IF r.status # "threw" /\ Len(r.value) > 0
    THEN [storage EXCEPT !.lastTopContracts = JSON_stringify(r.value)] ELSE storage

\* the component mounts: its state starts from the entry, its effect sets
\* the interval
TopContractsSectionMounts ==
    /\ ~topContracts.mounted
    /\ topContracts' = [topContracts EXCEPT !.mounted = TRUE, !.interval = TRUE,
                                             !.contracts = InitialContracts(localStorage)]
    /\ UNCHANGED <<localStorage, aggVars>>
    /\ UNCHANGED notTop

\* fetchContracts, on mount and on every tick of the interval
fetchContracts ==
    /\ topContracts.interval
    /\ agg.pc = "idle"
    /\ agg' = StartOf("getTopContracts", 1)
    /\ aggOut' = Running
    /\ UNCHANGED topVars
    /\ UNCHANGED notTop

\* getTopContracts settled and fetchContracts goes on after its await; the
\* state of a component that is no longer mounted is not set
fetchContractsSettles ==
    /\ agg.pc = "done"
    /\ agg.name = "getTopContracts"
    /\ topContracts' =
          [topContracts EXCEPT
             !.contracts = IF topContracts.mounted
                           THEN Refreshed("TopContracts", @, aggOut) ELSE @,
             !.lastGood = IF EmptyRefresh("TopContracts", aggOut) THEN @ ELSE aggOut.value,
             !.last = IF EmptyRefresh("TopContracts", aggOut) THEN "empty" ELSE "data"]
    /\ localStorage' = Stored(localStorage, aggOut)
    /\ agg' = IdleAgg
    /\ aggOut' = Running
    /\ UNCHANGED notTop

\* the component unmounts: the cleanup of its effect clears the interval
TopContractsSectionUnmounts ==
    /\ topContracts.mounted
    /\ topContracts' = [topContracts EXCEPT !.mounted = FALSE, !.interval = FALSE]
    /\ UNCHANGED <<localStorage, aggVars>>
    /\ UNCHANGED notTop

NextTopContracts ==
    \/ TopContractsSectionMounts
    \/ fetchContracts
    \/ fetchContractsSettles
    \/ TopContractsSectionUnmounts
    \/ getTopContracts

(***************************************************************************)
(* EventsLog with the chain and the clock it reads.  log.first is          *)
(* fetchInitialEvents, log.polls the calls of checkForNewEvents in flight, *)
(* each with the lastBlockNumber its closure holds.  A block is written as *)
(* its number, which is also its time; the transaction of block b has hash *)
(* b.  log.scanned is the highest block whose transactions a scan has      *)
(* looked at.                                                              *)
(***************************************************************************)
\* Date.now() when the component mounts, far above every eventId that counts
\* from 1
MountTime == 1000

\* the event types the transaction of block b gives rise to: every third
\* block is empty, the others hold one contract creation with a high gas
\* limit
TypesIn(b) == IF b % 3 = 0 THEN <<>> ELSE <<"Contract Creation", "High Gas Usage">>

\* the events pushed for blocks bs in the order of the scan, the first with
\* id eventId
RECURSIVE EventsPushed(_, _)
EventsPushed(bs, eventId) ==
    IF bs = <<>> THEN <<>>
    ELSE LET types == TypesIn(bs[1]) IN
         [j \in 1..Len(types) |->
             [id |-> eventId + j - 1, type |-> types[j], time |-> bs[1],
              blockNumber |-> bs[1], transactionHash |-> bs[1]]]
           \o EventsPushed(Tail(bs), eventId + Len(types))

\* getRecentEvents(blockCount) at height latestBlock: the blocks from the
\* latest down, eventId from 1
RecentEvents(latestBlock, blockCount) ==
    LET bs == SelectSeq([i \in 1..blockCount |-> latestBlock - (i - 1)], LAMBDA b : b >= 0)
    IN  Take(SortNewestFirst(EventsPushed(bs, 1)), MAX_EVENTS)

\* getNewEventsSince(lastBlockNumber) at height latestBlock: the blocks from
\* lastBlockNumber + 1 up, eventId from Date.now()
NewEventsSince(lastBlockNumber, latestBlock, dateNow) ==
    LET bs == [i \in 1..(latestBlock - lastBlockNumber) |-> lastBlockNumber + i]
    IN  SortNewestFirst(EventsPushed(bs, dateNow))

\* combined.filter((event, index, self) =>
\*     index === self.findIndex(e => e.id === event.id))
RECURSIVE UniqueById(_)
UniqueById(combined) ==
    IF combined = <<>> THEN <<>>
    ELSE <<combined[1]>>
           \o UniqueById(SelectSeq(Tail(combined), LAMBDA e : e.id # combined[1].id))

\* setEvents(prevEvents => ...) of checkForNewEvents
MergeById(newEvents, prevEvents) == Take(UniqueById(newEvents \o prevEvents), EVENTS_SHOWN)

IdleFirst == [pc |-> "idle", recent |-> Null, latestBlock |-> Null]

IdleCheck == [pc |-> "idle", lastBlockNumber |-> 0, latestBlock |-> 0]

LogInit ==
    log = [height |-> RECENT_EVENT_BLOCKS, clock |-> 0, mounted |-> FALSE,
           events |-> <<>>, lastBlockNumber |-> 0, scanned |-> 0,
           first |-> IdleFirst, polls |-> [p \in PollSlots |-> IdleCheck]]

\* the chain grows by a block
LogNewBlock ==
    /\ log.height < MaxLogHeight
    /\ log' = [log EXCEPT !.height = @ + 1]
    /\ UNCHANGED notLog

\* a millisecond passes while getNewEventsSince waits for its blocks, after
\* which it reads the clock
LogClockTicks ==
    /\ \E p \in PollSlots : log.polls[p].pc = "blocks"
    /\ log.clock < MaxClock
    /\ log' = [log EXCEPT !.clock = @ + 1]
    /\ UNCHANGED notLog

\* the component mounts: fetchInitialEvents starts getRecentEvents(2) and
\* getLatestBlockNumber()
fetchInitialEventsStarts ==
    /\ ~log.mounted
    /\ log' = [log EXCEPT !.mounted = TRUE, !.first = [IdleFirst EXCEPT !.pc = "all"]]
    /\ UNCHANGED notLog

\* getRecentEvents reads the height; a failure in it ends in its catch
\* clause, which returns []
RecentHeightSettles ==
    /\ log.first.pc = "all"
    /\ log.first.recent = Null
    /\ \/ log' = [log EXCEPT !.first.recent = log.height]
       \/ log' = [log EXCEPT !.first.recent = -2]
    /\ UNCHANGED notLog

\* the getLatestBlockNumber() of fetchInitialEvents settles; a failure ends
\* fetchInitialEvents in its catch clause
FirstHeightSettles ==
    /\ log.first.pc = "all"
    /\ log.first.latestBlock = Null
    /\ \/ log' = [log EXCEPT !.first.latestBlock = log.height]
       \/ log' = [log EXCEPT !.first = IdleFirst]
    /\ UNCHANGED notLog

\* the Promise.all of fetchInitialEvents settles: setEvents(initialEvents),
\* setLastBlockNumber(latestBlock)
fetchInitialEventsSettles ==
    /\ log.first.pc = "all"
    /\ log.first.recent # Null
    /\ log.first.latestBlock # Null
    /\ LET failed == log.first.recent < 0 IN
           log' = [log EXCEPT
                     !.events = IF failed THEN <<>>
                                ELSE RecentEvents(log.first.recent, RECENT_EVENT_BLOCKS),
                     !.lastBlockNumber = log.first.latestBlock,
                     !.scanned = IF failed \/ @ > log.first.recent THEN @ ELSE log.first.recent,
                     !.first = IdleFirst]
    /\ UNCHANGED notLog

\* a tick of the interval: checkForNewEvents calls getNewEventsSince with
\* the lastBlockNumber of the render the interval was set in; the call takes
\* the first slot that is free
CheckStarts(p) ==
    /\ log.mounted
    /\ log.polls[p].pc = "idle"
    /\ \A q \in PollSlots : q < p => log.polls[q].pc # "idle"
    /\ log' = [log EXCEPT !.polls[p] = [IdleCheck EXCEPT !.pc = "height",
                                                         !.lastBlockNumber = log.lastBlockNumber]]
    /\ UNCHANGED notLog

\* getNewEventsSince reads the height: nothing new or a failure returns []
CheckHeightSettles(p) ==
    /\ log.polls[p].pc = "height"
    /\ \/ log' = [log EXCEPT !.polls[p] = IdleCheck]
       \/ log' = [log EXCEPT !.polls[p] =
                    IF log.height <= log.polls[p].lastBlockNumber THEN IdleCheck
                    ELSE [@ EXCEPT !.pc = "blocks", !.latestBlock = log.height]]
    /\ UNCHANGED notLog

\* the blocks of getNewEventsSince arrive, or a request fails and [] is
\* returned; with new events checkForNewEvents merges them and reads the
\* height again
CheckBlocksSettle(p) ==
    /\ log.polls[p].pc = "blocks"
    /\ \/ log' = [log EXCEPT !.polls[p] = IdleCheck]
       \/ LET c == log.polls[p]
              newEvents == NewEventsSince(c.lastBlockNumber, c.latestBlock,
                                          MountTime + log.clock)
          IN  log' = [log EXCEPT
                        !.scanned = IF @ > c.latestBlock THEN @ ELSE c.latestBlock,
                        !.events = IF Len(newEvents) > 0 THEN MergeById(newEvents, @) ELSE @,
                        !.polls[p] = IF Len(newEvents) > 0 THEN [c EXCEPT !.pc = "again"]
                                     ELSE IdleCheck]
    /\ UNCHANGED notLog

\* the second getLatestBlockNumber() of checkForNewEvents settles:
\* setLastBlockNumber(latestBlock), or the catch clause
CheckHeightAgainSettles(p) ==
    /\ log.polls[p].pc = "again"
    /\ \/ log' = [log EXCEPT !.polls[p] = IdleCheck]
       \/ log' = [log EXCEPT !.polls[p] = IdleCheck, !.lastBlockNumber = log.height]
    /\ UNCHANGED notLog

checkForNewEvents ==
    \E p \in PollSlots :
        \/ CheckStarts(p)
        \/ CheckHeightSettles(p)
        \/ CheckBlocksSettle(p)
        \/ CheckHeightAgainSettles(p)

fetchInitialEvents ==
    \/ fetchInitialEventsStarts
    \/ RecentHeightSettles
    \/ FirstHeightSettles
    \/ fetchInitialEventsSettles

NextLog ==
    \/ LogNewBlock
    \/ LogClockTicks
    \/ fetchInitialEvents
    \/ checkForNewEvents

(***************************************************************************)
(* hexToNumber and hexToBigInt.  A string is written as its `0x` prefix    *)
(* and its hex digits; an integer as its binary digits, the most           *)
(* significant first and without leading zeros, so that integers beyond    *)
(* the precision of a Number can be told apart.                            *)
(***************************************************************************)
Undefined == [kind |-> "undefined", prefix |-> FALSE, digits |-> <<>>]

\* the string `0x` followed by digits, the empty string without them
HexString(prefix, digits) == [kind |-> "string", prefix |-> prefix, digits |-> digits]

\* the inputs: undefined, the empty string, `0x` alone, and `0x` followed by
\* up to MaxZeros zeros and by a number of one or two digits, or of two
\* digits with MaxShift - 1 or MaxShift zeros between them
HexInputs ==
    {Undefined, HexString(FALSE, <<>>), HexString(TRUE, <<>>)}
        \cup {HexString(TRUE, [j \in 1..z |-> 0] \o body) :
                 z \in 0..MaxZeros,
                 body \in {<<low>> : low \in 0..3}
                            \cup {<<high>> \o [j \in 1..shift |-> 0] \o <<low>> :
                                     high \in 1..2, low \in 0..3,
                                     shift \in {0, MaxShift - 1, MaxShift}}}

\* the string without the zeros that `0x` is followed by
Canonical(h) ==
    IF h.kind # "string" \/ h.digits = <<>> THEN h
    ELSE LET first == CHOOSE j \in 1..Len(h.digits) :
                         /\ j = Len(h.digits) \/ h.digits[j] # 0
                         /\ \A k \in 1..(j - 1) : h.digits[k] = 0
         IN  [h EXCEPT !.digits = SubSeq(h.digits, first, Len(h.digits))]

\* the four binary digits of a hex digit
BitsOfDigit(d) == <<d \div 8, (d \div 4) % 2, (d \div 2) % 2, d % 2>>

RECURSIVE BitsOfDigits(_)
BitsOfDigits(digits) ==
    IF digits = <<>> THEN <<>> ELSE BitsOfDigit(digits[1]) \o BitsOfDigits(Tail(digits))

\* binary digits without their leading zeros; none for 0
RECURSIVE Significant(_)
Significant(bits) ==
    IF bits = <<>> THEN <<>>
    ELSE IF bits[1] = 0 THEN Significant(Tail(bits)) ELSE bits

\* the integer the hex digits stand for
IntegerOf(digits) == Significant(BitsOfDigits(digits))

\* bits + 1, on binary digits of a fixed length that are not all 1
RECURSIVE PlusOne(_)
PlusOne(bits) ==
    IF bits[Len(bits)] = 0 THEN SubSeq(bits, 1, Len(bits) - 1) \o <<1>>
    ELSE PlusOne(SubSeq(bits, 1, Len(bits) - 1)) \o <<0>>

\* the Number value for an integer: the integer itself up to
\* DOUBLE_PRECISION binary digits, beyond that the nearest integer of that
\* many significant digits, the one with an even last digit of two equally
\* near
NumberOf(bits) ==
    IF Len(bits) <= DOUBLE_PRECISION THEN bits
    ELSE LET kept   == SubSeq(bits, 1, DOUBLE_PRECISION)
             rest   == SubSeq(bits, DOUBLE_PRECISION + 1, Len(bits))
             zeros  == [j \in 1..Len(rest) |-> 0]
             beyond == \E j \in 2..Len(rest) : rest[j] = 1
             up     == rest[1] = 1 /\ (beyond \/ kept[DOUBLE_PRECISION] = 1)
         IN  IF ~up THEN kept \o zeros
             ELSE IF \A j \in 1..Len(kept) : kept[j] = 1
             THEN <<1>> \o [j \in 1..Len(kept) |-> 0] \o zeros
             ELSE PlusOne(kept) \o zeros

\* hex ? ... : ... on undefined and on strings: only the empty string and
\* undefined are falsy
Truthy(h) == h.kind = "string" /\ (h.prefix \/ h.digits # <<>>)

Zero == [kind |-> "integer", bits |-> <<>>]

\* parseInt(hex, 16): NaN without a digit to read
parseInt16(h) ==
    IF h.digits = <<>> THEN [kind |-> "NaN", bits |-> <<>>]
    ELSE [kind |-> "integer", bits |-> NumberOf(IntegerOf(h.digits))]

\* BigInt(hex): a SyntaxError without a digit after `0x`
BigInt(h) ==
    IF h.digits = <<>> THEN [kind |-> "SyntaxError", bits |-> <<>>]
    ELSE [kind |-> "integer", bits |-> IntegerOf(h.digits)]

hexToNumber(h) == IF Truthy(h) THEN parseInt16(h) ELSE Zero

hexToBigInt(h) == IF Truthy(h) THEN BigInt(h) ELSE Zero

NotCalled == [kind |-> "none", bits |-> <<>>]

HexInit == hex = [input |-> Undefined, drawn |-> FALSE, number |-> NotCalled, bigint |-> NotCalled]

\* a caller holds the value h
HexDraws ==
    /\ ~hex.drawn
    /\ \E h \in HexInputs : hex' = [hex EXCEPT !.input = h, !.drawn = TRUE]
    /\ UNCHANGED notHex

CallsHexToNumber ==
    /\ hex.drawn
    /\ hex.number = NotCalled
    /\ hex' = [hex EXCEPT !.number = hexToNumber(hex.input)]
    /\ UNCHANGED notHex

CallsHexToBigInt ==
    /\ hex.drawn
    /\ hex.bigint = NotCalled
    /\ hex' = [hex EXCEPT !.bigint = hexToBigInt(hex.input)]
    /\ UNCHANGED notHex

NextHex ==
    \/ HexDraws
    \/ CallsHexToNumber
    \/ CallsHexToBigInt

(***************************************************************************)
(* Specifications.                                                         *)
(***************************************************************************)
Init ==
    /\ RateInit
    /\ BatchInit
    /\ SearchInit
    /\ AggInit
    /\ BlocksInit
    /\ TxsInit
    /\ PanelInit
    /\ MergeInit
    /\ ShellInit
    /\ TopInit
    /\ HexInit
    /\ LogInit

SpecRate == Init /\ [][NextRate]_vars
SpecBatch == Init /\ [][NextBatch]_vars
SpecSearch == Init /\ [][NextSearch]_vars
SpecAgg == Init /\ [][NextAgg]_vars
SpecLatestTransactions == Init /\ [][NextLatestTransactions]_vars /\ TimersFire
SpecBlocks == Init /\ [][NextBlocks]_vars
SpecTxs == Init /\ [][NextTxs]_vars
SpecPanels == Init /\ [][NextPanels]_vars
SpecDeployments == Init /\ [][NextDeployments]_vars
SpecMerge == Init /\ [][NextMerge]_vars
SpecHealth == Init /\ [][NextHealth]_vars
SpecHealthLive == Init /\ [][NextHealth]_vars /\ HealthFairness
SpecContractInfo == Init /\ [][NextContractInfo]_vars
SpecTopContracts == Init /\ [][NextTopContracts]_vars
SpecLog == Init /\ [][NextLog]_vars
SpecHex == Init /\ [][NextHex]_vars
SpecBlocksLive == Init /\ [][NextBlocks]_vars /\ BlocksFairness
SpecShell == Init /\ [][NextShell]_vars /\ ShellFairness

(***************************************************************************)
(* Claims about the rate limiter and the RPC entry points (SpecRate).      *)
(***************************************************************************)

\* a step in which slot s starts a single call to the QuickNode endpoint and
\* the call is let through
AdmittedStep(s) ==
    /\ calls[s].pc = "free"
    /\ calls'[s].pc = "fetch"
    /\ calls'[s].fn = "single"
    /\ IsQuick(calls'[s].url)

\* a step in which slot s starts a call that fails with the rate-limit error
RejectedStep(s) ==
    /\ calls[s].pc = "free"
    /\ calls'[s].pc = "done"
    /\ calls'[s].result = "RateLimited"

\* C1: a call to the rate-limited endpoint made W or more after the window
\* start resets the window and is admitted; within the window a call is
\* admitted while fewer than L calls were admitted in it, and fails with the
\* rate-limit error once L were.
C1_FixedWindow ==
    [][\A s \in Slots :
         (AdmittedStep(s) \/ RejectedStep(s)) =>
            IF now - lastResetTime >= RATE_LIMIT_WINDOW
            THEN AdmittedStep(s) /\ admitted' = 1 /\ lastResetTime' = now
            ELSE /\ lastResetTime' = lastResetTime
                 /\ IF admitted < RATE_LIMIT
                    THEN AdmittedStep(s) /\ admitted' = admitted + 1
                    ELSE RejectedStep(s) /\ admitted' = admitted]_vars

\* a call was rejected in a full window, and a later call, made after the
\* window had elapsed, is in flight as the first call of a new window
C1_Witness ==
    \E s, u \in Slots :
        /\ calls[s].result = "RateLimited"
        /\ calls[u].pc = "fetch" /\ calls[u].checked
        /\ admitted = 1
        /\ lastResetTime >= RATE_LIMIT_WINDOW

\* C2: every request in flight to the QuickNode endpoint, single or batch,
\* has passed checkRateLimit.
C2_QuickNodeAlwaysChecked ==
    \A s \in Slots :
        (calls[s].pc \in {"fetch", "json"} /\ IsQuick(calls[s].url)) => calls[s].checked

\* C3: with calls concurrently in flight, requestCount counts exactly the
\* calls admitted since the last reset and never exceeds RATE_LIMIT.
C3_CountNeverExceedsLimit ==
    /\ requestCount <= RATE_LIMIT
    /\ admitted <= RATE_LIMIT
    /\ requestCount = admitted

\* the window is full while two admitted calls are still in flight
C3_Witness ==
    /\ requestCount = RATE_LIMIT
    /\ \A s \in Slots : calls[s].pc \in {"fetch", "json"} /\ calls[s].checked

\* C4: a rejected call settles in the step that makes it, without a request
\* being issued and without the clock, requestCount or lastResetTime changing.
C4_RejectionIsImmediate ==
    [][\A s \in Slots :
         (calls'[s].result = "RateLimited" /\ calls[s].result # "RateLimited") =>
            /\ calls[s].pc = "free"
            /\ requestCount' = requestCount
            /\ lastResetTime' = lastResetTime
            /\ now' = now
            /\ \A u \in Slots : calls'[u].pc = "fetch" => calls[u].pc = "fetch"]_vars

\* a call has been rejected inside a full window
C4_Witness ==
    \E s \in Slots :
        /\ calls[s].result = "RateLimited"
        /\ requestCount = RATE_LIMIT
        /\ now - lastResetTime < RATE_LIMIT_WINDOW
        /\ now > lastResetTime

(***************************************************************************)
(* Claims about batchBlockVisionData (SpecBatch).                          *)
(***************************************************************************)

\* the provider answered every request of the batch
AllAnswered ==
    /\ batchData.kind = "array"
    /\ {batchData.items[j].id : j \in 1..Len(batchData.items)} = BatchIds

\* the sub-response to request i, when there is one
SubResponseTo(i) ==
    batchData.items[CHOOSE j \in 1..Len(batchData.items) : batchData.items[j].id = i]

\* C5: when all N sub-responses arrive, in any order, the call does not fail
\* and returns N entries, entry i being the result of request i, or null when
\* the sub-response to request i carries an error.
C5_BatchOrderedWithNulls ==
    (batchStage = "settled" /\ AllAnswered) =>
        /\ ~batchOut.threw
        /\ Len(batchOut.value) = batchN
        /\ \A i \in BatchIds :
             batchOut.value[i + 1] = IF SubResponseTo(i).error THEN Null ELSE ResultOf(i)

\* MaxBatch sub-responses arrived in reverse order, exactly one with an error
C5_Witness ==
    /\ batchStage = "settled"
    /\ batchN = MaxBatch
    /\ AllAnswered
    /\ \A j \in 1..batchN : batchData.items[j].id = batchN - j
    /\ Cardinality({j \in 1..batchN : batchData.items[j].error}) = 1
    /\ Len(batchOut.value) = batchN

\* C6: every sub-response that is present and carries no error is returned at
\* the position of its own request, also when other sub-responses are missing.
C6_PresentResultsAtOwnIndex ==
    (batchStage = "settled" /\ batchData.kind = "array") =>
        \A j \in 1..Len(batchData.items) :
            LET r == batchData.items[j] IN
            ~r.error => /\ r.id + 1 <= Len(batchOut.value)
                        /\ batchOut.value[r.id + 1] = r.result

(***************************************************************************)
(* Claims about cancellation in the search flow (SpecSearch).              *)
(***************************************************************************)

\* C7: once a search has been cancelled, none of its RPC requests is in
\* flight.
C7_NoRequestAfterCancel ==
    \A k \in Searches : srch[k].aborted => srch[k].reqs = {}

\* C8: getEnhancedTransactionByHash, cancelled while its signal-carrying
\* request is in flight, settles with the cancellation, not with null.
C8_CancelledTransactionLookupThrows ==
    \A k \in Searches :
        (/\ srch[k].fn = "getEnhancedTransactionByHash"
         /\ srch[k].at = "settled"
         /\ srch[k].abortedInFlight) => srch[k].out = "Cancelled"

\* C9: getContractInfo, cancelled while eth_getCode or a probe is in flight,
\* settles with the cancellation, not with a result made of 'N/A' fields.
C9_CancelledContractInfoThrows ==
    \A k \in Searches :
        (/\ srch[k].fn = "getContractInfo"
         /\ srch[k].at = "settled"
         /\ srch[k].abortedInFlight) => srch[k].out = "Cancelled"

\* C34: once a search has been cancelled and a newer one submitted, the
\* result displayed is not the older search's, and while the newer search
\* runs uncancelled it is shown as searching and its abort controller is the
\* one the Cancel button reaches.
C34_CancelledSearchIsSilent ==
    \A k \in Searches : \A j \in Searches :
        (k < j /\ srch[k].aborted /\ srch[j].hs # "idle") =>
            /\ searchResult.of # k
            /\ (srch[j].hs = "waiting" /\ ~srch[j].aborted) =>
                   isSearching /\ abortControllerRef = j

\* the call in agg has settled
AggSettled == agg.pc = "done"

\* the first sub-fetch of the call in agg failed
FirstFetchFailed ==
    agg.first \in {"TransportFailure", "ProtocolFailure", "RateLimited"} \cup BatchFailures

\* C10: whatever the RPC failures in its sub-fetches (transport error,
\* JSON-RPC error, rate-limit rejection), a settled call of one of the nine
\* aggregators has returned and not thrown, and when a failure reached the
\* boundary of the aggregator, or its first sub-fetch failed, it returned
\* its empty or zeroed result.
C10_AggregatorsNeverThrow ==
    AggSettled =>
        /\ aggOut.status = "returned"
        /\ (agg.threw \/ FirstFetchFailed) => aggOut.value = Empty(agg.name)

\* a call of getRecentDeployments settled after the rate limiter rejected
\* the request for a block
C10_Witness ==
    /\ AggSettled
    /\ agg.name = "getRecentDeployments"
    /\ agg.threw
    /\ agg.first = "ok"
    /\ aggOut = Returned(<<>>)

(***************************************************************************)
(* Claims about the polling components.                                    *)
(***************************************************************************)

\* C11: after any sequence of BlocksSection polls, overlapping ones included,
\* the displayed block list holds no block number twice, is strictly
\* descending by block number, and has at most 12 entries.
C11_BlocksDistinctDescendingBounded ==
    /\ \A j, k \in 1..Len(blocks) : j < k => blocks[j] > blocks[k]
    /\ Len(blocks) <= BLOCKS_SHOWN

\* C12: after any sequence of TransactionsSection polls, overlapping ones
\* included, the displayed transaction list holds no hash twice, has at most
\* 50 entries, and every displayed hash is in the seen-hash set.
C12_TransactionsDistinctBoundedSeen ==
    /\ \A j, k \in 1..Len(transactions) : j # k => transactions[j] # transactions[k]
    /\ Len(transactions) <= TXS_SHOWN
    /\ Range(transactions) \subseteq seenTxHashes

C14_DeploymentsRetainOnEmptyRefresh ==
    panel.name = "Deployments" => panel.shown = panel.lastGood

\* C15: merging the same aggregator result into the state of a cumulative
\* panel twice gives the list that merging it once gives: no entry is
\* duplicated and the displayed count is the same.
C15_MergeIdempotent ==
    merge.pc = "twice" =>
        /\ merge.list = merge.once
        /\ Len(merge.list) = Len(merge.once)
        /\ \A j, k \in 1..Len(merge.list) : j # k => merge.list[j] # merge.list[k]

\* a result that holds keys the panel has and keys it has not was merged
\* twice into a list close to the cut
C15_Witness ==
    /\ merge.pc = "twice"
    /\ merge.name = "EventsLog"
    /\ Range(merge.new) \cap Range(merge.prev) # {}
    /\ Range(merge.new) \ Range(merge.prev) # {}
    /\ Len(merge.list) = EVENTS_SHOWN

\* the keys the merge under study takes as new, and the previously seen
\* ones
NewKeys ==
    IF merge.name = "TransactionsSection" THEN Range(merge.new) \ merge.seenBefore
    ELSE Range(merge.new)

OldKeys == Range(merge.prev) \ NewKeys

\* where key x stands in seq
PositionIn(seq, x) == CHOOSE j \in 1..Len(seq) : seq[j] = x

\* C16: a cumulative panel merges by key and cuts to its maximum (12
\* high-gas transactions, 20 events, 50 transactions): the merged list holds
\* each key once, holds all new and previously seen keys or as many as the
\* maximum, has the new entries ahead of the previously seen ones and those
\* in the order they had, and what the cut drops are the oldest previously
\* seen entries, new ones only when no previously seen one is left.
C16_MergeKeyedNewestFirstBounded ==
    merge.pc = "once" =>
        LET L == merge.once IN
        /\ Cardinality(Range(L)) = Len(L)
        /\ Range(L) \subseteq NewKeys \cup OldKeys
        /\ Len(L) = Min(Shown(merge.name), Cardinality(NewKeys \cup OldKeys))
        /\ \A j \in 1..(Len(L) - 1) : L[j + 1] \in NewKeys => L[j] \in NewKeys
        /\ \A j \in 1..(Len(L) - 1) : L[j] \notin NewKeys =>
             PositionIn(merge.prev, L[j]) < PositionIn(merge.prev, L[j + 1])
        /\ \A x \in OldKeys \cap Range(L), y \in OldKeys \ Range(L) :
             PositionIn(merge.prev, x) < PositionIn(merge.prev, y)
        /\ (NewKeys \ Range(L) # {}) => OldKeys \cap Range(L) = {}

\* new transactions were merged into a full list, and the cut dropped
\* previously seen ones
C16_Witness ==
    /\ merge.pc = "once"
    /\ merge.name = "TransactionsSection"
    /\ NewKeys # {}
    /\ Len(merge.prev) = TXS_SHOWN
    /\ OldKeys \ Range(merge.once) # {}
    /\ OldKeys \cap Range(merge.once) # {}

(***************************************************************************)
(* Claims about single aggregators (SpecAgg).                              *)
(***************************************************************************)

\* C17: getLatestBlocks(N) at height h, when no block request fails, returns
\* the blocks numbered max(0, h-N+1)..h that the provider did not answer
\* null for, newest first: all of them when all exist, and the remaining
\* ones in unchanged order when some are null.
C17_LatestBlocksNewestFirst ==
    (AggSettled /\ agg.name = "getLatestBlocks" /\ ~agg.threw) =>
        LET from == IF agg.h - agg.count + 1 > 0 THEN agg.h - agg.count + 1 ELSE 0
            want == (from..agg.h) \ agg.nulls
            got  == aggOut.value
        IN  /\ Range(got) = want
            /\ Len(got) = Cardinality(want)
            /\ \A j \in 1..(Len(got) - 1) : got[j] > got[j + 1]

\* getLatestBlocks returned more than one block, none missing
C17_Witness ==
    /\ AggSettled
    /\ agg.name = "getLatestBlocks"
    /\ ~agg.threw
    /\ agg.nulls = {}
    /\ agg.count > 1
    /\ Len(aggOut.value) = agg.count

\* a call of getLatestTransactions returned the result of its try block
LatestTransactionsReturned ==
    AggSettled /\ agg.name = "getLatestTransactions" /\ ~agg.threw /\ agg.first = "ok"

\* C18: getLatestTransactions(K), for a latest block with n transactions,
\* returns min(K, n) transactions in the order of the block whatever the
\* order in which the receipt waits end; the status of each is the status of
\* the receipt of that transaction, or null when its receipt request failed,
\* answered null or timed out, and none is dropped.
C18_TransactionsInBlockOrderWithOwnStatus ==
    LatestTransactionsReturned =>
        LET K == agg.count
            n == agg.i
            got == aggOut.value
        IN  /\ Len(got) = IF K <= n THEN K ELSE n
            /\ \A j \in 1..Len(got) :
                 /\ got[j].tx = j
                 /\ got[j].status = IF agg.todo[j].outcome = "receipt"
                                    THEN agg.todo[j].receiptStatus ELSE Null

\* the receipt wait of the second transaction ended first, that of the first
\* one by the timer; the receipts have different statuses
C18_Witness ==
    /\ LatestTransactionsReturned
    /\ Len(aggOut.value) >= 2
    /\ agg.todo[2].arrival = 1
    /\ agg.todo[2].outcome = "receipt"
    /\ agg.todo[1].outcome = "Timeout"
    /\ agg.todo[1].receiptStatus # agg.todo[2].receiptStatus

\* C19: once its latest-block fetch has completed and the receipts are
\* requested, getLatestTransactions eventually returns, even when receipt
\* requests never settle: every receipt wait ends by the receipt, by a
\* failure, or by the 3-second timer, which waits for nothing else.
C19_LatestTransactionsReturns ==
    (agg.name = "getLatestTransactions" /\ agg.pc = "receipts") ~> AggSettled

\* getLatestTransactions returned after every receipt wait ended by the timer
C19_Witness ==
    /\ LatestTransactionsReturned
    /\ agg.t >= 2
    /\ \A j \in 1..agg.t : agg.todo[j].outcome = "Timeout"

\* a call of getDashboardMetrics has settled
MetricsSettled == AggSettled /\ agg.name = "getDashboardMetrics"

\* the fetches of `step` the call made
Made(step) == {k \in 1..Len(agg.steps) : agg.steps[k].step = step}

\* how the fetch `step` of the call ended: "ok", a failure, or "not made"
Outcome(step) ==
    IF Made(step) = {} THEN "not made" ELSE agg.steps[CHOOSE k \in Made(step) : TRUE].o

\* the figure the answer to `step` carried
Figure(step) == agg.steps[CHOOSE k \in Made(step) : TRUE].n

\* C20: in getDashboardMetrics the failure of one sub-step (the latest-block
\* fetch, the fetch of the block 10 behind, the fetch of the latest block
\* with full transactions) zeroes only the metrics derived from that sub-step;
\* the metrics derived from the other sub-steps have their computed values.
\* The average transaction value derives from the fetch with full
\* transactions alone, so that fetch is made and used whatever happened to
\* the other two.
C20_SubStepFailureZeroesOnlyItsMetrics ==
    MetricsSettled =>
        LET m == aggOut.value
            n == Figure("latest")
        IN  /\ Outcome("latest") = "ok" =>
                 /\ m.latestBlock = agg.h
                 /\ m.txsInLastBlock = n
                 /\ m.totalTxs = agg.h * n
            /\ Outcome("latest") # "ok" =>
                 /\ m.latestBlock = 0 /\ m.txsInLastBlock = 0 /\ m.totalTxs = 0
                 /\ m.blocksPerMin = 0 /\ m.txsPerMin = 0
            /\ Outcome("latest") = "ok" /\ Outcome("older") = "ok" =>
                 /\ m.blocksPerMin = (IF Figure("older") > 0 THEN 600 \div Figure("older") ELSE 0)
                 /\ m.txsPerMin = n * m.blocksPerMin
            /\ Outcome("latest") = "ok" /\ Outcome("older") # "ok" =>
                 /\ m.blocksPerMin = 0 /\ m.txsPerMin = 0
            /\ Outcome("full") # "not made"
            /\ Outcome("full") = "ok" =>
                 m.avgTxValue = (IF Figure("full") > 0 THEN "average" ELSE "0.0000")
            /\ Outcome("full") \notin {"ok", "not made"} => m.avgTxValue = "0.0000"

C24_DeploymentsKeptOnFailure ==
    (agg.name = "getRecentDeployments" /\ AggSettled) =>
        /\ aggOut.status = "returned"
        /\ aggOut.value = SortedDeployments(agg.acc)

\* a call of one of the two event scans returned the result of its try block
ScanReturned ==
    /\ AggSettled
    /\ agg.name \in {"getRecentEvents", "getNewEventsSince"}
    /\ ~agg.threw
    /\ agg.first = "ok"

\* the kinds of event a transaction of that kind gives rise to
Classifications(kind) ==
    (IF kind.creation THEN {"Contract Creation"} ELSE {})
        \cup (IF kind.failed THEN {"Failed Transaction"} ELSE {})
        \cup (IF kind.large THEN {"Large Transfer"} ELSE {})
        \cup (IF kind.highGas THEN {"High Gas Usage"} ELSE {})

\* C25: getRecentEvents and getNewEventsSince look at the first 3
\* transactions of each scanned block only and emit, for each of them, every
\* classification that applies; a failed receipt request suppresses the
\* failed-transaction event of that transaction and no other event.
C25_EventsOfFirstThreeTransactions ==
    ScanReturned =>
        LET emitted == {<<agg.acc[j].blockNumber, agg.acc[j].tx, agg.acc[j].type>> :
                           j \in 1..Len(agg.acc)}
            expected == UNION {UNION {{<<agg.todo[j].b, tx, type>> :
                                          type \in Classifications(agg.todo[j].kind)
                                                     \ (IF <<agg.todo[j].b, tx>> \in agg.nulls
                                                        THEN {"Failed Transaction"} ELSE {})}
                                      : tx \in 1..Min(agg.todo[j].all, EVENT_TXS_PER_BLOCK)}
                               : j \in 1..Len(agg.todo)}
        IN  /\ emitted = expected
            /\ Len(agg.acc) = Cardinality(expected)

\* a scan of a block of four transactions, each a failed large high-gas
\* contract creation, in which a receipt request failed
C25_Witness ==
    /\ ScanReturned
    /\ agg.nulls # {}
    /\ \E j \in 1..Len(agg.todo) :
         /\ agg.todo[j].all > EVENT_TXS_PER_BLOCK
         /\ agg.todo[j].kind = TxKind(TRUE, TRUE, TRUE, TRUE)
         /\ \E tx \in 1..EVENT_TXS_PER_BLOCK : <<agg.todo[j].b, tx>> \in agg.nulls

\* C26: the lists getRecentEvents and getNewEventsSince return are sorted
\* newest first by block time and hold at most 20 events.
C26_EventsNewestFirstAtMostTwenty ==
    (AggSettled /\ agg.name \in {"getRecentEvents", "getNewEventsSince"}
        /\ aggOut.status = "returned") =>
        /\ Len(aggOut.value) <= MAX_EVENTS
        /\ \A j \in 1..(Len(aggOut.value) - 1) : aggOut.value[j].time >= aggOut.value[j + 1].time

(***************************************************************************)
(* Claims about the ecosystem-health computations (SpecHealth).            *)
(***************************************************************************)
\* a call of one of the two health computations returned its metrics
HealthReturned ==
    /\ AggSettled
    /\ agg.name \in HealthVariants
    /\ aggOut.status = "returned"
    /\ aggOut.value # NoMetrics

\* C21: in both health computations, a window of blocks in which every
\* transaction has status 1 gives successRate 100 and healthScore 'Healthy';
\* a window in which more than 5% of the transactions have status 0 gives
\* 'Needs Attention'; healthScore is 'Healthy' exactly when successRate > 95
\* and failedTxRate < 5.
C21_HealthScoreFollowsStatuses ==
    HealthReturned =>
        LET m == aggOut.value
            bs == agg.todo
        IN  /\ (\A j \in 1..Len(bs) : bs[j].zeros = 0 /\ bs[j].plain = 0) =>
                 m.successRate = 10000 /\ m.healthScore = "Healthy"
            /\ Total(bs, "zeros") * 100 > 5 * Total(bs, "txs") =>
                 m.healthScore = "Needs Attention"
            /\ m.healthScore = "Healthy" <=> (m.successRate > 9500 /\ m.failedTxRate < 500)

\* C22: getEcosystemHealthMetrics throws when the latest block is not
\* available; getRecentEcosystemHealthMetrics returns metrics over the
\* blocks that were fetched, with failedBlocks exactly the requested block
\* numbers whose fetch failed and partial true exactly when there are some.
C22_HealthFailurePolicies ==
    /\ (AggSettled /\ agg.name = "getEcosystemHealthMetrics" /\ agg.first # "ok") =>
          aggOut.status = "threw"
    /\ (HealthReturned /\ agg.name = "getRecentEcosystemHealthMetrics") =>
          /\ aggOut.value.blockCount = agg.count - Cardinality(agg.nulls)
          /\ aggOut.value.failedBlocks = agg.nulls
          /\ aggOut.value.partial = (agg.nulls # {})

\* getEcosystemHealthMetrics returned its metrics
WalkReturned == HealthReturned /\ agg.name = "getEcosystemHealthMetrics"

\* the blocks collected are the latest block and the blocks below it without
\* a gap, none of them older than the window
WalkIsContiguousRun ==
    /\ Len(agg.todo) = Len(agg.acc)
    /\ aggOut.value.blockCount = Len(agg.acc)
    /\ \A j \in 1..Len(agg.acc) :
         /\ agg.acc[j] = agg.h - (j - 1)
         /\ agg.acc[j] >= 0
         /\ agg.t * (agg.h - agg.acc[j]) <= secondsIn24h

\* successCount + failedCount <= txCount
WalkCountsAreBounded ==
    /\ aggOut.value.txCount = Total(agg.todo, "txs")
    /\ Total(agg.todo, "ones") + Total(agg.todo, "zeros") <= aggOut.value.txCount

\* a call of getEcosystemHealthMetrics settles
WalkTerminates ==
    (agg.name = "getEcosystemHealthMetrics" /\ agg.pc # "done") ~> AggSettled

\* C39 as stated: the backward walk of getEcosystemHealthMetrics terminates
\* on every chain; the blocks collected are a contiguous descending run from
\* the latest block inside the window; successCount + failedCount <= txCount
\* and successRate + failedTxRate <= 100.
C39_WalkTerminatesRatesWithinHundred ==
    /\ [](WalkReturned =>
            /\ WalkIsContiguousRun
            /\ WalkCountsAreBounded
            /\ aggOut.value.successRate + aggOut.value.failedTxRate <= 10000)
    /\ WalkTerminates

\* C39 amended: as above, with successRate + failedTxRate <= 100.01 for the
\* rates returned, each of which is rounded to two decimals.
C39_WalkTerminatesRatesRounded ==
    /\ [](WalkReturned =>
            /\ WalkIsContiguousRun
            /\ WalkCountsAreBounded
            /\ aggOut.value.successRate + aggOut.value.failedTxRate <= 10001)
    /\ WalkTerminates

\* on a chain of more than 100 blocks of one timestamp the walk went down to
\* block 0, and the two rates returned sum to 100.01
C39_Witness ==
    /\ WalkReturned
    /\ agg.h > BLOCK_TIME_SAMPLE
    /\ agg.t = 0
    /\ Len(agg.acc) = agg.h + 1
    /\ agg.acc[Len(agg.acc)] = 0
    /\ aggOut.value.successRate + aggOut.value.failedTxRate = 10001

(***************************************************************************)
(* Claims about getContractInfo (SpecContractInfo).                        *)
(***************************************************************************)
\* C27: getContractInfo classifies an address whose code is empty ('0x',
\* '0x0' or nothing) as 'Not a contract' without issuing a probe; otherwise
\* it issues the four probes, and a probe that fails gives 'N/A' for its own
\* field while the other fields keep their decoded values.
C27_ProbeFailureIsLocal ==
    (agg.name = "getContractInfo" /\ AggSettled) =>
        /\ agg.first \in EmptyCode =>
             /\ aggOut.value.contractType = "Not a contract"
             /\ agg.todo = <<>>
        /\ agg.first = "code" =>
             /\ DOMAIN agg.steps = ProbeFields
             /\ aggOut.value.contractType = "ERC20"
             /\ \A f \in ProbeFields :
                  aggOut.value[f] = IF agg.steps[f] = "value" THEN <<"decoded", f>> ELSE "N/A"

\* the probe of the symbol failed and the three others were answered
C27_Witness ==
    /\ agg.name = "getContractInfo"
    /\ AggSettled
    /\ agg.first = "code"
    /\ agg.steps["symbol"] \in Errors(PROXY_URL)
    /\ \A f \in ProbeFields \ {"symbol"} : agg.steps[f] = "value"

(***************************************************************************)
(* Claims about getGasOverviewData (SpecAgg).                              *)
(***************************************************************************)
\* getGasOverviewData returned
GasOverviewReturned == agg.name = "getGasOverviewData" /\ agg.pc = "done"

\* C30: highGasTxs are at most 5 transactions of the latest block, in
\* descending order of gas limit, and no transaction left out has a larger
\* gas limit than one that is shown; the result is the zeroed one when the
\* batch fails or leaves the gas price or the block without a result.
C30_HighGasTxsAreTopFiveByGasLimit ==
    GasOverviewReturned =>
        LET shown == aggOut.value.highGasTxs
            txs   == agg.todo
        IN  IF agg.first # "ok" \/ agg.nulls # {}
            THEN aggOut = Returned(ZeroGasOverview)
            ELSE /\ aggOut.status = "returned"
                 /\ Len(shown) = Min(Len(txs), HIGH_GAS_TOP)
                 /\ \A j, k \in 1..Len(shown) : j < k => shown[j].gasUsed >= shown[k].gasUsed
                 /\ \A j, k \in 1..Len(shown) : j # k => shown[j].hash # shown[k].hash
                 /\ \A j \in 1..Len(shown) :
                      \E k \in 1..Len(txs) :
                         txs[k].hash = shown[j].hash /\ txs[k].gas = shown[j].gasUsed
                 /\ \A k \in 1..Len(txs) :
                      (\A j \in 1..Len(shown) : shown[j].hash # txs[k].hash) =>
                          \A j \in 1..Len(shown) : shown[j].gasUsed >= txs[k].gas

\* a block of more than five transactions: the overview starts with one that
\* is not the first of the block, and leaves out one that is not the last
C30_Witness ==
    /\ GasOverviewReturned
    /\ agg.first = "ok"
    /\ agg.nulls = {}
    /\ Len(agg.todo) > HIGH_GAS_TOP
    /\ Len(aggOut.value.highGasTxs) = HIGH_GAS_TOP
    /\ aggOut.value.highGasTxs[1].hash > 1
    /\ \E j \in 1..Len(aggOut.value.highGasTxs) : aggOut.value.highGasTxs[j].hash = Len(agg.todo)

(***************************************************************************)
(* Claims about getGasUsageHistory (SpecAgg).                              *)
(***************************************************************************)
\* getGasUsageHistory came to its return of finalData
GasHistoryReturned ==
    agg.name = "getGasUsageHistory" /\ agg.pc = "done" /\ ~agg.threw /\ agg.first = "ok"

\* the sum of gasUsed over the blocks of S
RECURSIVE GasUsedIn(_, _)
GasUsedIn(S, chain) ==
    IF S = {} THEN 0
    ELSE LET b == CHOOSE x \in S : TRUE IN GasUsedOf(chain, b) + GasUsedIn(S \ {b}, chain)

\* C31: getGasUsageHistory(m) on success returns exactly m entries, one per
\* minute, oldest first and ending at the minute of the latest block's
\* timestamp; the gasUsed of an entry is the sum of gasUsed over the fetched
\* blocks whose timestamp lies in its minute, 0 when there is none.
C31_GasHistoryOnePerMinute ==
    GasHistoryReturned =>
        LET history == aggOut.value
            last    == TimestampOf(agg.todo, agg.h) \div 60
        IN  /\ Len(history) = agg.count
            /\ \A j \in 1..Len(history) :
                 LET minute == last - (Len(history) - j)
                 IN  /\ history[j].time = minute % 1440
                     /\ history[j].gasUsed =
                          GasUsedIn({b \in agg.acc : TimestampOf(agg.todo, b) \div 60 = minute},
                                    agg.todo)

\* a history of more than one minute: its last minute holds gas, an earlier
\* one holds less, and a block that was asked for did not come
C31_Witness ==
    /\ GasHistoryReturned
    /\ Len(aggOut.value) > 1
    /\ aggOut.value[Len(aggOut.value)].gasUsed > aggOut.value[1].gasUsed
    /\ aggOut.value[1].gasUsed > 0
    /\ agg.nulls # {}

(***************************************************************************)
(* Claims about getTopContracts (SpecAgg).                                 *)
(***************************************************************************)
\* getTopContracts came to its return of the sorted list
TopContractsReturned ==
    agg.name = "getTopContracts" /\ agg.pc = "done" /\ ~agg.threw /\ agg.first = "ok"

\* the transactions of the blocks that came that are addressed to address
AddressedTo(p, address) ==
    {<<b, t>> \in UNION {{b} \X (1..Len(p[b].to)) : b \in {x \in DOMAIN p : p[x].o = "ok"}} :
        p[b].to[t] = address}

\* the addresses some transaction of the blocks that came is addressed to
Addressed(p) ==
    UNION {Range(p[b].to) : b \in {x \in DOMAIN p : p[x].o = "ok"}} \ {Null}

\* C32: getTopContracts asks for the 5 latest blocks (for all of them when
\* the height is below 4), counts for each `to` address the transactions
\* addressed to it in the blocks that came, and returns at most 10 addresses
\* in non-increasing order of count, each once and with its exact count, none
\* of those left out having a larger count than one returned; a null `to` is
\* not counted.
C32_TopContractsByCount ==
    TopContractsReturned =>
        LET top == aggOut.value
            p   == agg.todo
        IN  /\ DOMAIN p = {b \in 0..agg.h : b > agg.h - TOP_CONTRACT_BLOCKS}
            /\ Len(top) = Min(Cardinality(Addressed(p)), TOP_CONTRACTS_SHOWN)
            /\ \A j, k \in 1..Len(top) :
                 /\ j < k => top[j].transactions >= top[k].transactions
                 /\ j # k => top[j].address # top[k].address
            /\ \A j \in 1..Len(top) :
                 /\ top[j].address \in Addressed(p)
                 /\ top[j].transactions = Cardinality(AddressedTo(p, top[j].address))
            /\ \A address \in Addressed(p) \ {top[j].address : j \in 1..Len(top)} :
                 \A j \in 1..Len(top) :
                    top[j].transactions >= Cardinality(AddressedTo(p, address))

\* more than ten addresses were called, one of them in two blocks, a
\* contract was created, and the list starts with an address called more
\* often than address 1
C32_Witness ==
    /\ TopContractsReturned
    /\ Cardinality(Addressed(agg.todo)) > TOP_CONTRACTS_SHOWN
    /\ \E b \in DOMAIN agg.todo : Null \in Range(agg.todo[b].to)
    /\ aggOut.value[1].transactions > 2
    /\ aggOut.value[1].address > 1

(***************************************************************************)
(* Claims about the polls of BlocksSection (SpecBlocks, SpecBlocksLive).   *)
(***************************************************************************)
\* C35: latestBlockNumberRef advances in a poll only over blocks that the
\* list then displays, so that no block above it is left unrequested.
C35_RefAdvancesOverDisplayedBlocks ==
    [][(latestBlockNumberRef # Null /\ latestBlockNumberRef' > latestBlockNumberRef) =>
          \A b \in (latestBlockNumberRef + 1)..latestBlockNumberRef' :
              \E j \in 1..Len(blocks') : blocks'[j] = b]_vars

\* C36: when the first fetch has ended without a block to display, a later
\* poll displays blocks.
C36_EmptyPanelRecovers ==
    (initialFetch.pc = "done" /\ blocks = <<>>) ~> (blocks # <<>>)

(***************************************************************************)
(* Claims about the polls of EventsLog (SpecLog).                          *)
(***************************************************************************)
\* C37: lastBlockNumber is never above the highest block a scan has looked
\* at.
C37_LastBlockNumberWasScanned ==
    log.lastBlockNumber <= log.scanned

\* C38: no two displayed events share an id, no occurrence on the chain (a
\* transaction hash and an event type) is displayed twice, and a merge
\* drops an event only for an event of the same occurrence.
C38_EventIdsAreSound ==
    /\ [](\A i \in 1..Len(log.events) : \A j \in 1..Len(log.events) :
            (i # j) =>
               /\ log.events[i].id # log.events[j].id
               /\ \/ log.events[i].transactionHash # log.events[j].transactionHash
                  \/ log.events[i].type # log.events[j].type)
    /\ [][\A p \in PollSlots :
            (log.polls[p].pc = "blocks" /\ log'.polls[p].pc = "again") =>
               LET newEvents == NewEventsSince(log.polls[p].lastBlockNumber,
                                               log.polls[p].latestBlock, MountTime + log.clock)
               IN  \A i \in 1..Len(newEvents) : \A j \in 1..Len(log.events) :
                     newEvents[i].id = log.events[j].id =>
                        /\ newEvents[i].transactionHash = log.events[j].transactionHash
                        /\ newEvents[i].type = log.events[j].type]_vars

(***************************************************************************)
(* Claims about hexToNumber and hexToBigInt (SpecHex).                     *)
(***************************************************************************)
\* C33: on a hex string, canonical or with leading zeros, hexToNumber and
\* hexToBigInt return the same integer, which is the one they return on the
\* canonical form; both return 0 on the empty string and on undefined; and
\* hexToNumber never throws.
C33_HexHelpersAgree ==
    /\ hex.number.kind \in {"none", "integer", "NaN"}
    /\ hex.number # NotCalled /\ hex.bigint # NotCalled =>
          /\ ~Truthy(hex.input) => hex.number = Zero /\ hex.bigint = Zero
          /\ hex.input.kind = "string" /\ hex.input.digits # <<>> =>
                /\ hex.number = hex.bigint
                /\ hex.number = hexToNumber(Canonical(hex.input))
                /\ hex.bigint = hexToBigInt(Canonical(hex.input))

(***************************************************************************)
(* Claims about the shell of the polling components (SpecShell).           *)
(***************************************************************************)
\* C28: a panel that shows its loading state leaves it once the fetch is
\* over, whether the fetch gave data, gave nothing or failed; while the panel
\* stays mounted its timer goes on starting polls; a poll starts only from a
\* mounted panel, and no interval is left after the unmount.
C28_LoadingEndsAndPollsGoOn ==
    /\ shell.loading ~> ~shell.loading
    /\ <>[]shell.mounted => ([]<>shell.tick /\ []<>~shell.tick)
    /\ [](~shell.mounted => ~shell.interval)
    /\ [][shell'.tick # shell.tick => shell.mounted]_vars

\* the first fetch failed, the loading state is over, and the timer has
\* started a poll since
C28_Witness ==
    /\ shell.mounted
    /\ shell.fetch = "done"
    /\ shell.last = "failed"
    /\ ~shell.loading
    /\ shell.inflight > 0

(***************************************************************************)
(* Claims about TopContractsSection and its stored entry                   *)
(* (SpecTopContracts).                                                     *)
(***************************************************************************)
\* fetchContracts goes on after its await
RefreshSettles == agg.pc = "done" /\ agg.name = "getTopContracts" /\ agg'.pc = "idle"

\* C29: the entry 'lastTopContracts' holds exactly the contracts the mounted
\* component displays (no entry, no contracts), and once a refresh brought
\* contracts it holds the result of the most recent such refresh; a refresh
\* that failed or brought nothing changes neither the entry nor the display,
\* and one that brought contracts overwrites both.
C29_CacheIsWhatIsDisplayed ==
    /\ [](topContracts.mounted => topContracts.contracts = InitialContracts(localStorage))
    /\ [](topContracts.last # "none" /\ topContracts.lastGood # <<>> =>
             localStorage.lastTopContracts = JSON_stringify(topContracts.lastGood))
    /\ [][RefreshSettles /\ (aggOut.status = "threw" \/ aggOut.value = <<>>) =>
             /\ topContracts'.contracts = topContracts.contracts
             /\ localStorage' = localStorage]_vars
    /\ [][RefreshSettles /\ aggOut.status # "threw" /\ aggOut.value # <<>> =>
             /\ topContracts.mounted => topContracts'.contracts = aggOut.value
             /\ localStorage'.lastTopContracts = JSON_stringify(aggOut.value)]_vars

\* the component was mounted again over an entry written earlier, and its
\* latest refresh brought nothing
C29_Witness ==
    /\ topContracts.mounted
    /\ topContracts.last = "empty"
    /\ topContracts.contracts # <<>>
    /\ agg.pc = "done"
    /\ aggOut.value # <<>>
    /\ aggOut.value # topContracts.contracts

====
